---- MODULE Spec2Model ----
(***************************************************************************)
(* Model of the knowledge-graph MCP server (ingpoc/knowledge-graph).       *)
(*                                                                         *)
(* The store is the four DuckDB tables of src/src/lib/db.ts.  Strings are  *)
(* sequences of characters (or of coarser chunks where only the presence   *)
(* of a '?' matters), so that the placeholder substitution of query() and  *)
(* the LOWER / LIKE predicates of the SQL are computed, not assumed.       *)
(* Reals in [0,1] (confidence, strength, weights) are counted in tenths:   *)
(* 0.1 is 1, 0.5 is 5, 1.0 is 10.                                          *)
(***************************************************************************)
EXTENDS Integers, Sequences, FiniteSets, TLC

VARIABLES
  projects,       \* set of project ids                       (table projects)
  entities,       \* entity id -> row                         (table entities)
  relationships,  \* relationship id (1..n) -> row            (table relationships)
  observations,   \* observation id (1..n) -> row             (table observations)
  req,            \* the request being served
  pc,             \* position of the handler serving it
  resp,           \* the response produced (status 0 while none)
  qcount,         \* number of storage queries the handler has issued
  visitedIds,     \* fetchRelationships: the shared visitedIds set
  frame,          \* fetchRelationships: one invocation per entity id
  queried,        \* fetchRelationships: relationship queries issued per entity
  locals          \* the other handlers: values held between two storage queries

vars == <<projects, entities, relationships, observations, req, pc, resp,
          qcount, visitedIds, frame, queried, locals>>

store == <<projects, entities, relationships, observations>>
traversal == <<visitedIds, frame, queried>>
handler == <<req, locals>>

(***************************************************************************)
(* Bounds of the model.                                                    *)
(***************************************************************************)
NumEntities == 3      \* entities in the graphs of the traversal specification
MaxRels == 2          \* relationship rows in those graphs
MaxDepthParam == 4    \* largest value of the depth query parameter

(***************************************************************************)
(* Strings.                                                                *)
(***************************************************************************)
IdPool == <<"e1", "e2", "e3", "e4", "e5", "e6">>
EntityId(i) == <<IdPool[i]>>
EntityIds(n) == {EntityId(i) : i \in 1..n}
DefaultProject == <<"default">>

RECURSIVE SetToSeq(_)
\* the rows of a table in ascending id order
SetToSeq(S) ==
  IF S = {} THEN <<>>
  ELSE LET m == CHOOSE x \in S : \A y \in S : x <= y
       IN <<m>> \o SetToSeq(S \ {m})

Range(s) == {s[i] : i \in DOMAIN s}

(***************************************************************************)
(* query(sql, params) of src/src/lib/db.ts: every parameter replaces the   *)
(* FIRST '?' of the text processed so far.  The SQL text between two       *)
(* placeholders holds no '?' and is one opaque chunk.                      *)
(***************************************************************************)
Str(s) == [k |-> "str", s |-> s]
Num(n) == [k |-> "num", n |-> n]
Null == [k |-> "null"]

\* the replacement text of one parameter (null is an object that is no Date,
\* so the JSON.stringify branch overwrites 'NULL')
Replacement(p) ==
  IF p.k = "str" THEN <<"'">> \o p.s \o <<"'">>
  ELSE IF p.k = "null" THEN <<"'", "null", "'">>
  ELSE <<ToString(p.n)>>

\* an SQL text with n placeholders
SqlText(n) == [i \in 1..(2 * n + 1) |-> IF i % 2 = 0 THEN "?" ELSE "sql"]

\* String.prototype.replace('?', r): the first occurrence only
ReplaceFirst(text, r) ==
  LET marks == {i \in DOMAIN text : text[i] = "?"}
      first == CHOOSE i \in marks : \A j \in marks : i <= j
  IN IF marks = {} THEN text
     ELSE SubSeq(text, 1, first - 1) \o r \o SubSeq(text, first + 1, Len(text))

RECURSIVE ProcessedSql(_, _)
\* params.forEach(param => processedSql = processedSql.replace('?', ...))
ProcessedSql(text, params) ==
  IF params = <<>> THEN text
  ELSE CHOOSE out \in {ProcessedSql(next, rest) :
                         next \in {ReplaceFirst(text, Replacement(Head(params)))},
                         rest \in {Tail(params)}} : TRUE

RECURSIVE BoundSql(_, _)
\* the statement in which the i-th placeholder holds the i-th parameter
BoundSql(n, params) ==
  IF n = 0 THEN <<"sql">>
  ELSE BoundSql(n - 1, SubSeq(params, 1, n - 1)) \o Replacement(params[n]) \o <<"sql">>

\* db.all runs the processed text; a text that is not the bound statement
\* keeps an unfilled placeholder next to a broken literal and is rejected
QueryOk(params) ==
  \E p \in {params} : ProcessedSql(SqlText(Len(p)), p) = BoundSql(Len(p), p)

StrParams(ids) == [i \in DOMAIN ids |-> Str(ids[i])]

(***************************************************************************)
(* GET /api/context/entity/{id} and fetchRelationships.                    *)
(***************************************************************************)
NaN == 0 - 1000   \* parseInt of a non-numeric depth parameter

IsNaN(x) == x = NaN
NumLT(a, b) == ~IsNaN(a) /\ ~IsNaN(b) /\ a < b
NumGE(a, b) == ~IsNaN(a) /\ ~IsNaN(b) /\ a >= b
Minus1(x) == IF IsNaN(x) THEN NaN ELSE x - 1

\* parseInt(searchParams.get('depth') || '1'): the parameter is absent, an
\* integer text, or a text that is no number
ParseDepth(d) == IF d.k = "absent" THEN 1 ELSE IF d.k = "text" THEN NaN ELSE d.n

IdleFrame == [st |-> "idle", depth |-> 0, rows |-> <<>>, kids |-> <<>>, res |-> <<>>]

\* JOIN entities e ON <neighbor> = e.id JOIN projects p ON e.project_id = p.id
Joined(n) == n \in DOMAIN entities /\ entities[n].project \in projects

Neighbor(r, dir) ==
  IF dir = "outgoing" THEN relationships[r].to ELSE relationships[r].from

\* the rows of the relationship query of one frame
RelRows(e, dir) ==
  SetToSeq({r \in DOMAIN relationships :
              /\ IF dir = "outgoing" THEN relationships[r].from = e
                                     ELSE relationships[r].to = e
              /\ Joined(Neighbor(r, dir))})

\* if (currentDepth >= maxDepth || visitedIds.has(entityId)) return [];
FetchGuard(e, maxDepth, depth, vis) == NumGE(depth, maxDepth) \/ e \in vis

\* the variant that leaves the visited check to the guard of the call
RecursesUnchecked(n, maxDepth, depth, vis) == NumLT(depth, Minus1(maxDepth))

\* the off-by-one variant: if (currentDepth < maxDepth)
RecursesOffByOne(n, maxDepth, depth, vis) ==
  NumLT(depth, maxDepth) /\ n \notin vis

\* if (currentDepth < maxDepth - 1) { ... if (!visitedIds.has(nextEntityId))
Recurses(n, maxDepth, depth, vis) ==
  NumLT(depth, Minus1(maxDepth)) /\ n \notin vis

\* one callback of relationships.map(async rel => ...), up to its first await:
\* the call of fetchRelationships adds to visitedIds and issues its query
MapRow(st, r, dir, maxDepth, depth) ==
  LET n == Neighbor(r, dir)
  IN IF Recurses(n, maxDepth, depth, st.vis)
     THEN IF FetchGuard(n, maxDepth, depth + 1, st.vis)
          THEN [st EXCEPT !.kids = Append(@, "empty")]
          ELSE [vis |-> st.vis \cup {n},
                fr |-> [st.fr EXCEPT ![n] =
                          [IdleFrame EXCEPT !.st = "query", !.depth = depth + 1]],
                kids |-> Append(st.kids, "frame"),
                q |-> [st.q EXCEPT ![n] = @ + 1]]
     ELSE [st EXCEPT !.kids = Append(@, "none")]

RECURSIVE MapRows(_, _, _, _, _, _)
\* the callbacks run in row order, each before the next one starts
\* (the singleton set binds the intermediate value once)
MapRows(rows, dir, maxDepth, depth, st, i) ==
  IF i > Len(rows) THEN st
  ELSE CHOOSE out \in {MapRows(rows, dir, maxDepth, depth, next, i + 1) :
                         next \in {MapRow(st, rows[i], dir, maxDepth, depth)}} : TRUE

\* the invocation has returned: its list ("done") or [] from its catch ("failed")
Returned(f) == f.st \in {"done", "failed"}

\* a memoising variant that awaits the invocation of every neighbor, also of
\* one that is already in visitedIds
KidsDoneAwaitVisited(fr, f, dir) ==
  \A i \in DOMAIN f.rows : Returned(fr[Neighbor(f.rows[i], dir)])

\* Promise.all over the callbacks: every recursive call has returned
KidsDone(fr, f, dir) ==
  \A i \in DOMAIN f.rows :
    f.kids[i] = "frame" => Returned(fr[Neighbor(f.rows[i], dir)])

\* return processedRelationships: each row in its slot, with the nested
\* targetRelationships / sourceRelationships key where the callback set it
Processed(fr, f, dir) ==
  [i \in DOMAIN f.rows |->
     [rel |-> f.rows[i],
      hasNested |-> f.kids[i] # "none",
      nested |-> IF f.kids[i] = "frame"
                 THEN fr[Neighbor(f.rows[i], dir)].res ELSE <<>>]]

\* one invocation whose callbacks have all resolved returns its list
SettleOne(fr, dir) ==
  LET e == CHOOSE x \in DOMAIN fr : fr[x].st = "wait" /\ KidsDone(fr, fr[x], dir)
  IN [fr EXCEPT ![e].st = "done", ![e].res = Processed(fr, fr[e], dir)]

RECURSIVE Settle(_, _)
\* the promise continuations that run before the next storage callback:
\* every invocation whose callbacks have all resolved returns its list
Settle(fr, dir) ==
  IF \E e \in DOMAIN fr : fr[e].st = "wait" /\ KidsDone(fr, fr[e], dir)
  THEN CHOOSE out \in {Settle(next, dir) : next \in {SettleOne(fr, dir)}} : TRUE
  ELSE fr

NoFrames == [e \in DOMAIN entities |-> IdleFrame]
NoQueries == [e \in DOMAIN entities |-> 0]

NoResp == [status |-> 0]
EmptyStore == [projects |-> {}, entities |-> <<>>, relationships |-> <<>>,
               observations |-> <<>>]
NoLocals == [relatedIds |-> <<>>, results |-> <<>>, fault |-> FALSE,
             before |-> EmptyStore, served |-> 0,
             conditions |-> <<>>, params |-> <<>>]
MaxRelationshipDepth == ParseDepth(req.depth)
Dir == IF pc \in {"outgoing", "outgoingRun"} THEN "outgoing" ELSE "incoming"
Running == pc \in {"outgoingRun", "incomingRun"}

\* const entityResult = await query(... WHERE e.id = ?, [entityId])
EntityLookup ==
  /\ req.op = "entity" /\ pc = "lookup"
  /\ qcount' = qcount + 1
  /\ IF ~QueryOk(<<Str(req.id)>>)
     THEN pc' = "done" /\ resp' = [status |-> 500]
     ELSE IF ~Joined(req.id)
     THEN pc' = "done" /\ resp' = [status |-> 404]
     ELSE pc' = "observations" /\ resp' = resp
  /\ UNCHANGED <<store, handler, traversal>>

\* the entity query is rejected by the storage layer: the outer catch answers 500
EntityLookupFail ==
  /\ req.op = "entity" /\ pc = "lookup"
  /\ qcount' = qcount + 1
  /\ pc' = "done" /\ resp' = [status |-> 500]
  /\ UNCHANGED <<store, handler, traversal>>

ObservationsOf(e) == {o \in DOMAIN observations : observations[o].entity = e}

\* if (includeObservations) { entity.observations = await query(...) }
EntityObservations ==
  /\ req.op = "entity" /\ pc = "observations"
  /\ qcount' = IF req.includeObservations THEN qcount + 1 ELSE qcount
  /\ LET obs == IF req.includeObservations THEN ObservationsOf(req.id) ELSE {}
     IN IF req.includeRelationships
        THEN /\ pc' = "outgoing"
             /\ resp' = [status |-> 0, observations |-> obs,
                         outgoing |-> <<>>, incoming |-> <<>>]
        ELSE /\ pc' = "done"
             /\ resp' = [status |-> 200, observations |-> obs,
                         outgoing |-> <<>>, incoming |-> <<>>]
  /\ UNCHANGED <<store, handler, traversal>>

\* await fetchRelationships(entityId, direction, maxRelationshipDepth): the
\* call runs up to its query, or returns [] at the guard
FetchStart ==
  /\ req.op = "entity" /\ pc \in {"outgoing", "incoming"}
  /\ IF FetchGuard(req.id, MaxRelationshipDepth, 0, {})
     THEN /\ visitedIds' = {}
          /\ frame' = [NoFrames EXCEPT ![req.id] = [IdleFrame EXCEPT !.st = "done"]]
          /\ queried' = NoQueries
          /\ qcount' = qcount
     ELSE /\ visitedIds' = {req.id}
          /\ frame' = [NoFrames EXCEPT ![req.id] = [IdleFrame EXCEPT !.st = "query"]]
          /\ queried' = [NoQueries EXCEPT ![req.id] = 1]
          /\ qcount' = qcount + 1
  /\ pc' = IF pc = "outgoing" THEN "outgoingRun" ELSE "incomingRun"
  /\ UNCHANGED <<store, handler, resp>>

\* the relationship query of frame e completes: the map callbacks start, and
\* the invocations that have nothing left to await return
FetchRows(e) ==
  /\ req.op = "entity" /\ Running
  /\ frame[e].st = "query"
  /\ QueryOk(<<Str(e)>>)
  /\ \E rows \in {RelRows(e, Dir)} :
       \E st \in {MapRows(rows, Dir, MaxRelationshipDepth, frame[e].depth,
                           [vis |-> visitedIds, fr |-> frame, kids |-> <<>>,
                            q |-> queried], 1)} :
         \E fr \in {[st.fr EXCEPT ![e].st = "wait", ![e].rows = rows,
                                   ![e].kids = st.kids]} :
           /\ visitedIds' = st.vis
           /\ frame' = Settle(fr, Dir)
           /\ queried' = st.q
           /\ qcount' = qcount +
                          Cardinality({i \in DOMAIN st.kids : st.kids[i] = "frame"})
  /\ UNCHANGED <<store, handler, pc, resp>>

\* the variant of FetchFail without the catch of fetchRelationships: the
\* rejection reaches the catch of the handler, which answers 500
FetchFailAborts(e) ==
  /\ req.op = "entity" /\ Running
  /\ frame[e].st = "query"
  /\ frame' = [frame EXCEPT ![e].st = "failed", ![e].res = <<>>]
  /\ pc' = "done" /\ resp' = [resp EXCEPT !.status = 500]
  /\ UNCHANGED <<store, handler, qcount, visitedIds, queried>>

\* the relationship query of frame e is rejected: catch (error) { return [] }
FetchFail(e) ==
  /\ req.op = "entity" /\ Running
  /\ frame[e].st = "query"
  /\ \E fr \in {[frame EXCEPT ![e].st = "failed", ![e].res = <<>>]} :
       frame' = Settle(fr, Dir)
  /\ UNCHANGED <<store, handler, pc, resp, qcount, visitedIds, queried>>

\* entity.outgoingRelationships = ...; entity.incomingRelationships = ...;
\* return NextResponse.json({ entity, metadata })
FetchDone ==
  /\ req.op = "entity" /\ Running
  /\ Returned(frame[req.id])
  /\ IF pc = "outgoingRun"
     THEN pc' = "incoming" /\ resp' = [resp EXCEPT !.outgoing = frame[req.id].res]
     ELSE pc' = "done" /\ resp' = [resp EXCEPT !.incoming = frame[req.id].res,
                                               !.status = 200]
  /\ UNCHANGED <<store, handler, qcount, traversal>>

(***************************************************************************)
(* Specification of one GET /api/context/entity/{id} request over every    *)
(* graph of at most MaxRels relationships between NumEntities entities.    *)
(***************************************************************************)
MissingId == <<"nope">>
RelTypes == {"DependsOn", "Uses"}

MkEntity(name, etype, project, confidence) ==
  [name |-> name, etype |-> etype, project |-> project, confidence |-> confidence]
MkRel(from, to, rtype, strength) ==
  [from |-> from, to |-> to, rtype |-> rtype, strength |-> strength]

DepthParams ==
  {[k |-> "absent"], [k |-> "text"]} \cup {[k |-> "int", n |-> i] : i \in (0 - 1)..MaxDepthParam}

GraphsOver(ids, types, maxRels) ==
  UNION {[1..k -> {MkRel(f, t, ty, 5) : f \in ids, t \in ids, ty \in types}] : k \in 0..maxRels}

EntityRequest(i, d, io, ir) ==
  [op |-> "entity", id |-> i, depth |-> d, includeObservations |-> io,
   includeRelationships |-> ir]

\* the graphs are closed under renaming of the entities: the start is e1
TraversalRequests == {EntityRequest(EntityId(1), d, TRUE, TRUE) : d \in DepthParams}

EntityRequests ==
  TraversalRequests
    \cup {EntityRequest(EntityId(1), d, FALSE, TRUE) : d \in DepthParams}
    \cup {EntityRequest(EntityId(1), d, TRUE, FALSE) : d \in DepthParams}
    \cup {EntityRequest(MissingId, [k |-> "absent"], TRUE, TRUE)}

InitTraverse ==
  /\ projects = {DefaultProject}
  /\ entities = [e \in EntityIds(NumEntities) |-> MkEntity(e, "Component", DefaultProject, 5)]
  /\ relationships \in GraphsOver(EntityIds(NumEntities), {"DependsOn"}, MaxRels)
  /\ observations = <<>>
  /\ req \in EntityRequests
  /\ pc = "lookup"
  /\ resp = NoResp
  /\ qcount = 0
  /\ visitedIds = {}
  /\ frame = NoFrames
  /\ queried = NoQueries
  /\ locals = NoLocals

NextTraverse ==
  \/ EntityLookup
  \/ EntityLookupFail
  \/ EntityObservations
  \/ FetchStart
  \/ \E e \in DOMAIN entities : FetchRows(e)
  \/ \E e \in DOMAIN entities : FetchFail(e)
  \/ FetchDone

SpecTraverse == InitTraverse /\ [][NextTraverse]_vars


InitLive ==
  /\ InitTraverse
  /\ req \in TraversalRequests

\* every storage query eventually completes or fails, and the event loop runs
\* every continuation that is ready
FairTraverse == InitLive /\ [][NextTraverse]_vars /\ WF_vars(NextTraverse)

(***************************************************************************)
(* The same request over deeper graphs: a chain e1 -> e2 -> ... of         *)
(* DeepEntities entities and at most one further relationship.             *)
(***************************************************************************)
DeepEntities == 5

Chain(n) == [i \in 1..(n - 1) |-> MkRel(EntityId(i), EntityId(i + 1), "DependsOn", 5)]

InitDeep ==
  /\ projects = {DefaultProject}
  /\ entities = [e \in EntityIds(DeepEntities) |-> MkEntity(e, "Component", DefaultProject, 5)]
  /\ relationships \in {Chain(DeepEntities) \o g :
                           g \in GraphsOver(EntityIds(DeepEntities), {"DependsOn"}, 1)}
  /\ observations = <<>>
  /\ req \in EntityRequests \cup
              {EntityRequest(EntityId(1), [k |-> "int", n |-> MaxDepthParam + 1], TRUE, TRUE)}
  /\ pc = "lookup"
  /\ resp = NoResp
  /\ qcount = 0
  /\ visitedIds = {}
  /\ frame = NoFrames
  /\ queried = NoQueries
  /\ locals = NoLocals

SpecDeep == InitDeep /\ [][NextTraverse]_vars

(***************************************************************************)
(* The same request over two graphs in which sibling branches meet: the    *)
(* diamond e1 -> e2 -> e4, e1 -> e3 -> e4, and a graph in which e4 is two  *)
(* hops from e1 through e5 and three hops through e2 and e3.               *)
(***************************************************************************)
Diamond ==
  <<MkRel(EntityId(1), EntityId(2), "DependsOn", 5),
    MkRel(EntityId(1), EntityId(3), "DependsOn", 5),
    MkRel(EntityId(2), EntityId(4), "DependsOn", 5),
    MkRel(EntityId(3), EntityId(4), "DependsOn", 5)>>

Detour ==
  <<MkRel(EntityId(1), EntityId(2), "DependsOn", 5),
    MkRel(EntityId(2), EntityId(3), "DependsOn", 5),
    MkRel(EntityId(3), EntityId(4), "DependsOn", 5),
    MkRel(EntityId(1), EntityId(5), "DependsOn", 5),
    MkRel(EntityId(5), EntityId(4), "DependsOn", 5),
    MkRel(EntityId(4), EntityId(6), "DependsOn", 5),
    MkRel(EntityId(6), EntityId(1), "DependsOn", 5)>>

InitMeet ==
  /\ projects = {DefaultProject}
  /\ entities = [e \in EntityIds(Len(IdPool)) |-> MkEntity(e, "Component", DefaultProject, 5)]
  /\ relationships \in {Diamond, Detour}
  /\ observations = <<>>
  /\ req \in EntityRequests
  /\ pc = "lookup"
  /\ resp = NoResp
  /\ qcount = 0
  /\ visitedIds = {}
  /\ frame = NoFrames
  /\ queried = NoQueries
  /\ locals = NoLocals

SpecMeet == InitMeet /\ [][NextTraverse]_vars

(***************************************************************************)
(* Properties of the traversal.                                            *)
(***************************************************************************)
SetMax(S) == CHOOSE x \in S : \A y \in S : y <= x

RECURSIVE TreeDepth(_)
\* number of nested levels of relationship records
TreeDepth(t) ==
  IF t = <<>> THEN 0
  ELSE 1 + SetMax({TreeDepth(t[i].nested) : i \in DOMAIN t})

RECURSIVE Within(_, _, _)
\* the entities at most k relationship hops away from e in direction dir
Within(e, dir, k) ==
  IF k = 0 THEN {e}
  ELSE LET near == Within(e, dir, k - 1)
       IN near \cup {Neighbor(r, dir) : r \in
                      {x \in DOMAIN relationships :
                         IF dir = "outgoing" THEN relationships[x].from \in near
                                             ELSE relationships[x].to \in near}}

Trees == IF "outgoing" \in DOMAIN resp THEN {resp.outgoing, resp.incoming} ELSE {}
RowIds(t) == [i \in DOMAIN t |-> t[i].rel]

\* C1: for any finite graph (cycles and self-loops included), any direction
\* and any requested maxDepth, every started invocation of fetchRelationships
\* eventually returns and the request is eventually answered, provided every
\* storage query eventually completes or fails.
C1_Terminates ==
  <>(pc = "done" /\ \A e \in DOMAIN frame : frame[e].st \notin {"query", "wait"})

HasCycle ==
  \E a, b \in DOMAIN relationships :
    /\ relationships[a].from = req.id /\ relationships[a].to # req.id
    /\ relationships[b].from = relationships[a].to /\ relationships[b].to = req.id
\* a traversal of depth 3 over a graph with a cycle through the start entity
\* has been answered, both directions having stopped at the visited start
C1_Witness ==
  /\ pc = "done" /\ resp.status = 200 /\ req.includeRelationships
  /\ MaxRelationshipDepth = 3
  /\ HasCycle
  /\ TreeDepth(resp.outgoing) = 2 /\ TreeDepth(resp.incoming) = 2

\* C2: the traversal result never nests deeper than maxDepth; with
\* maxDepth = 0 fetchRelationships returns an empty list, and with
\* maxDepth = 1 it returns exactly the rows of the direct neighbors, none of
\* which carries a targetRelationships / sourceRelationships key.
C2_DepthBound ==
  LET d == MaxRelationshipDepth
  IN /\ \A t \in Trees :
          /\ ~IsNaN(d) => TreeDepth(t) <= (IF d < 0 THEN 0 ELSE d)
          /\ d = 0 => t = <<>>
          /\ d = 1 => \A i \in DOMAIN t : ~t[i].hasNested
     /\ Running =>
          /\ d = 0 => frame[req.id].st = "done" /\ frame[req.id].res = <<>>
          /\ d = 1 /\ frame[req.id].st = "done" =>
               /\ RowIds(frame[req.id].res) = RelRows(req.id, Dir)
               /\ \A i \in DOMAIN frame[req.id].res : ~frame[req.id].res[i].hasNested
          /\ ~IsNaN(d) =>
               \A e \in DOMAIN entities :
                 TreeDepth(frame[e].res) <= (IF d < 0 THEN 0 ELSE d)

\* a depth-1 traversal has returned the row of a direct neighbor that has a
\* relationship of its own
C2_Witness ==
  /\ pc = "done" /\ resp.status = 200
  /\ MaxRelationshipDepth = 1
  /\ Len(resp.outgoing) = 1
  /\ \E r \in DOMAIN relationships :
       /\ relationships[r].from = relationships[resp.outgoing[1].rel].to
       /\ relationships[r].from # req.id

\* C3: traversal depth is capped at 3: for every accepted depth parameter no
\* entity more than 3 hops from the start is queried for its relationships,
\* and the returned tree is never nested more than 3 levels.
C3_DepthCapped ==
  /\ Running =>
       \A e \in DOMAIN entities :
         queried[e] > 0 => e \in Within(req.id, Dir, 3)
  /\ \A t \in Trees : TreeDepth(t) <= 3


\* the direction the frames belong to
FrameDir == IF pc \in {"outgoingRun", "incoming"} THEN "outgoing" ELSE "incoming"

\* C19: a relationship query that fails during a traversal makes its own
\* invocation return the empty list and nothing else: every invocation whose
\* query succeeded returns all its rows, each with the list its recursive
\* call returned, the request is answered 200, and the list of the other
\* direction is either all rows of the start entity or, if its first query
\* failed, empty.
C19_FailedBranchIsEmpty ==
  (req.op = "entity" /\ pc \in {"outgoingRun", "incoming", "incomingRun", "done"}
     /\ "incoming" \in DOMAIN resp /\ req.includeRelationships) =>
    /\ \A e \in DOMAIN frame :
         /\ frame[e].st = "failed" => frame[e].res = <<>>
         /\ (frame[e].st = "done" /\ queried[e] > 0) =>
              /\ RowIds(frame[e].res) = RelRows(e, FrameDir)
              /\ \A i \in DOMAIN frame[e].res :
                   frame[e].kids[i] = "frame" =>
                     frame[e].res[i].nested
                       = frame[Neighbor(frame[e].res[i].rel, FrameDir)].res
    /\ pc = "incoming" => resp.outgoing = frame[req.id].res
    /\ pc = "done" =>
         /\ resp.status = 200
         /\ resp.incoming = frame[req.id].res
         /\ \/ resp.outgoing = <<>>
            \/ RowIds(resp.outgoing) = RelRows(req.id, "outgoing")

\* a traversal has been answered 200 although the query of one neighbor
\* failed: the start entity has two incoming rows, one neighbor's invocation
\* failed and the other's returned
C19_Witness ==
  /\ req.op = "entity" /\ pc = "done" /\ resp.status = 200
  /\ req.includeRelationships
  /\ Len(resp.incoming) = 2
  /\ \E e, d \in DOMAIN frame \ {req.id} :
       /\ frame[e].st = "failed"
       /\ frame[d].st = "done" /\ queried[d] > 0
       /\ \E i, j \in DOMAIN resp.incoming :
            /\ relationships[resp.incoming[i].rel].from = e
            /\ relationships[resp.incoming[j].rel].from = d
            /\ resp.incoming[i].hasNested /\ resp.incoming[i].nested = <<>>

\* the rows, over all invocations that have returned their list, that lead
\* to entity n and carry a nested list
Carriers(n) ==
  {<<e, i>> \in UNION {{<<x, k>> : k \in DOMAIN frame[x].res} : x \in DOMAIN frame} :
     /\ frame[e].st = "done"
     /\ Neighbor(frame[e].res[i].rel, FrameDir) = n
     /\ frame[e].res[i].hasNested}

\* C21: within one traversal call no entity is queried for its
\* relationships more than once, whatever the order in which the queries of
\* sibling branches complete; every invocation returns each of its rows
\* exactly once, at most one row leading to an entity carries a nested list,
\* and no row leading back to the start entity carries one.
C21_ExpandedOnce ==
  (req.op = "entity" /\ pc \in {"outgoingRun", "incoming", "incomingRun", "done"}
     /\ "incoming" \in DOMAIN resp) =>
    /\ \A e \in DOMAIN entities : queried[e] <= 1
    /\ \A e \in DOMAIN frame :
         (frame[e].st = "done" /\ queried[e] > 0) =>
           /\ Len(frame[e].res) = Len(RelRows(e, FrameDir))
           /\ \A r \in Range(RelRows(e, FrameDir)) :
                Cardinality({i \in DOMAIN frame[e].res : frame[e].res[i].rel = r}) = 1
    /\ \A n \in DOMAIN entities : Cardinality(Carriers(n)) <= 1
    /\ Carriers(req.id) = {}

\* the outgoing traversal of the diamond has returned: e4 was reached from
\* both sibling branches, was queried once, and only the row e3 -> e4 of the
\* branch whose query completed first carries its list
C21_Witness ==
  /\ req.op = "entity" /\ pc = "incoming"
  /\ relationships = Diamond
  /\ queried[EntityId(4)] = 1
  /\ frame[EntityId(2)].st = "done" /\ Len(frame[EntityId(2)].res) = 1
  /\ Carriers(EntityId(4)) = {<<EntityId(3), 1>>}

\* C22: the nested structure does not depend on the order in which the
\* queries of sibling branches complete: of two sibling rows of one list
\* whose recursive calls both ran, the earlier row's branch carries the
\* nested list of a neighbor both branches lead to, so no row of the later
\* branch that leads to such a neighbor carries a nested list.
C22_SlotsIndependentOfOrder ==
  (req.op = "entity" /\ pc \in {"outgoingRun", "incoming", "incomingRun", "done"}
     /\ "incoming" \in DOMAIN resp) =>
    \A p \in DOMAIN frame : \A i, j \in DOMAIN frame[p].res :
      ( /\ frame[p].st = "done" /\ i < j
        /\ frame[p].kids[i] = "frame" /\ frame[p].kids[j] = "frame" ) =>
        LET e == Neighbor(frame[p].res[i].rel, FrameDir)
            f == Neighbor(frame[p].res[j].rel, FrameDir)
        IN \A x \in DOMAIN frame[e].res : \A y \in DOMAIN frame[f].res :
             ( /\ frame[e].st = "done" /\ frame[f].st = "done" /\ e # f
               /\ Neighbor(frame[e].res[x].rel, FrameDir)
                    = Neighbor(frame[f].res[y].rel, FrameDir) )
               => ~frame[f].res[y].hasNested

RECURSIVE TreeRows(_)
\* the relationship rows of a returned tree, nested lists included
TreeRows(t) ==
  IF t = <<>> THEN <<>>
  ELSE <<Head(t).rel>> \o TreeRows(Head(t).nested) \o TreeRows(Tail(t))

\* the relationships whose near entity is less than d hops from the start
NearRows(dir, d) ==
  IF d < 1 THEN {}
  ELSE {r \in DOMAIN relationships :
          /\ (IF dir = "outgoing" THEN relationships[r].from ELSE relationships[r].to)
               \in Within(req.id, dir, d - 1)
          /\ Joined(Neighbor(r, dir))}

\* C23: when no relationship query has failed, the rows of the tree a
\* traversal of depth d returns are the relationships whose from (resp. to)
\* entity is less than d hops from the start, each exactly once, for every
\* order in which the queries complete.
C23_TreeCoversDepth ==
  ( /\ req.op = "entity" /\ pc \in {"incoming", "done"} /\ "incoming" \in DOMAIN resp
    /\ req.includeRelationships /\ ~IsNaN(MaxRelationshipDepth)
    /\ \A e \in DOMAIN frame : frame[e].st # "failed" ) =>
    LET rows == TreeRows(frame[req.id].res)
    IN /\ Range(rows) = NearRows(FrameDir, MaxRelationshipDepth)
       /\ \A i, j \in DOMAIN rows : rows[i] = rows[j] => i = j

(***************************************************************************)
(* POST /api/context/similarity.                                           *)
(***************************************************************************)
MaxSeeds == 2         \* seed ids in one similarity request

None == [k |-> "absent"]
Some(v) == [k |-> "some", v |-> v]
\* zod .default(d) and the `x || d` idiom on an absent field
OrDefault(o, d) == IF o.k = "absent" THEN d ELSE o.v

\* the ids of S in the order of IdPool
IdSeq(S) == SelectSeq([i \in DOMAIN IdPool |-> EntityId(i)], LAMBDA x : x \in S)

RECURSIVE Times(_, _)
\* [...ids, ...ids, ...]: n copies of a list
Times(s, n) == IF n = 0 THEN <<>> ELSE s \o Times(s, n - 1)

\* similarityRequestSchema.safeParse(body).success
SimilarityValid(r) ==
  /\ Len(r.entityIds) >= 1
  /\ OrDefault(r.maxResults, 20) > 0
  /\ OrDefault(r.minConfidence, 3) \in 0..10
  /\ OrDefault(r.relationshipWeight, 7) \in 0..10
  /\ OrDefault(r.attributeWeight, 3) \in 0..10

\* the variant without any exclusion of the seed ids
NotSeedDropped(id, seeds) == TRUE

\* <column> NOT IN (${entityIds.map(() => '?').join(',')})
NotSeed(id, seeds) == id \notin Range(seeds)

\* SELECT COUNT(*) as count FROM entities WHERE id IN (entityIds)
EntityCount(seeds) == Cardinality({e \in DOMAIN entities : e \in Range(seeds)})

\* source_relations filtered by related_id NOT IN (entityIds), made distinct
RelatedIds(seeds) ==
  {IF relationships[r].from \in Range(seeds) THEN relationships[r].to
                                              ELSE relationships[r].from :
     r \in {x \in DOMAIN relationships :
              \/ relationships[x].from \in Range(seeds)
              \/ relationships[x].to \in Range(seeds)}}
    \ Range(seeds)

\* the rows selected by the WHERE of target_relations
TargetRelations(related, seeds) ==
  {r \in DOMAIN relationships :
     /\ relationships[r].from \in related \/ relationships[r].to \in related
     /\ NotSeed(relationships[r].from, seeds)
     /\ NotSeed(relationships[r].to, seeds)}

\* CASE WHEN r.from_entity_id IN (relatedIds) THEN r.to_entity_id ELSE r.from_entity_id
TargetEntity(r, related) ==
  IF relationships[r].from \in related THEN relationships[r].to
                                       ELSE relationships[r].from

\* SUM(tr.connection_strength) over the groups of one entity_id
ConnectionScore(c, related, seeds) ==
  Cardinality({r \in TargetRelations(related, seeds) : TargetEntity(r, related) = c})

\* COUNT(DISTINCT tr.relation_type)
RelationDiversity(c, related, seeds) ==
  Cardinality({relationships[r].rtype :
                 r \in {x \in TargetRelations(related, seeds) :
                          TargetEntity(x, related) = c}})

\* the conditions joined into whereClause
SimilarityWhere(c, r) ==
  /\ NotSeed(c, r.entityIds)
  /\ r.projectId.k = "some" => entities[c].project = r.projectId.v
  /\ (r.entityTypes.k = "some" /\ Len(r.entityTypes.v) > 0)
       => entities[c].etype \in Range(r.entityTypes.v)
  /\ entities[c].confidence >= OrDefault(r.minConfidence, 3)

\* one row of the similarity query
SimilarityRow(c, related, r) ==
  [id |-> c,
   confidence |-> entities[c].confidence,
   connectionScore |-> ConnectionScore(c, related, r.entityIds),
   relationDiversity |-> RelationDiversity(c, related, r.entityIds),
   similarityScore |-> ConnectionScore(c, related, r.entityIds)
                         * RelationDiversity(c, related, r.entityIds)
                         * OrDefault(r.relationshipWeight, 7)]

\* FROM entities e JOIN similarity_scores ss JOIN projects p WHERE ...
SimilarityRows(related, r) ==
  {SimilarityRow(c, related, r) :
     c \in {x \in DOMAIN entities :
              /\ Joined(x)
              /\ ConnectionScore(x, related, r.entityIds) > 0
              /\ SimilarityWhere(x, r)}}

\* ORDER BY similarityScore DESC, e.confidence DESC LIMIT ?: the engine may
\* return rows that tie in any order
SimilarityResults(related, r) ==
  LET rows == SimilarityRows(related, r)
      n == Cardinality(rows)
      limit == OrDefault(r.maxResults, 20)
  IN {SubSeq(s, 1, IF limit < n THEN limit ELSE n) :
        s \in {p \in [1..n -> rows] :
                 /\ Range(p) = rows
                 /\ \A i, j \in 1..n :
                      i < j => \/ p[i].similarityScore > p[j].similarityScore
                               \/ /\ p[i].similarityScore = p[j].similarityScore
                                  /\ p[i].confidence >= p[j].confidence}}

\* the parameters of the similarity query, in the order of similarityParams
SimilarityParams(related, r) ==
  Times(StrParams(related), 3) \o Times(StrParams(r.entityIds), 2)
    \o <<Num(OrDefault(r.relationshipWeight, 7))>>
    \o StrParams(r.entityIds)
    \o (IF r.projectId.k = "some" THEN <<Str(r.projectId.v)>> ELSE <<>>)
    \o (IF r.entityTypes.k = "some" THEN StrParams(r.entityTypes.v) ELSE <<>>)
    \o <<Num(OrDefault(r.minConfidence, 3))>>
    \o <<Num(OrDefault(r.maxResults, 20))>>

SimError(status) ==
  [status |-> status, hasResult |-> FALSE, similarEntities |-> <<>>, total |-> 0,
   message |-> FALSE]
SimResult(rows, message) ==
  [status |-> 200, hasResult |-> TRUE, similarEntities |-> rows, total |-> Len(rows),
   message |-> message]

\* validation, then the existence check of the seed ids
SimCheck ==
  /\ req.op = "similarity" /\ pc = "check"
  /\ IF ~SimilarityValid(req)
     THEN pc' = "done" /\ resp' = SimError(400) /\ qcount' = qcount
     ELSE /\ qcount' = qcount + 1
          /\ IF ~QueryOk(StrParams(req.entityIds))
             THEN pc' = "done" /\ resp' = SimError(500)
             ELSE IF EntityCount(req.entityIds) = 0
             THEN pc' = "done" /\ resp' = SimError(404)
             ELSE pc' = "sourceRelations" /\ resp' = resp
  /\ UNCHANGED <<store, handler, traversal>>

\* const sourceRelations = await query(sourceRelationsSql, sourceRelationsParams)
SimSourceRelations ==
  /\ req.op = "similarity" /\ pc = "sourceRelations"
  /\ qcount' = qcount + 1
  /\ IF ~QueryOk(Times(StrParams(req.entityIds), 4))
     THEN pc' = "done" /\ resp' = SimError(500) /\ locals' = locals
     ELSE IF RelatedIds(req.entityIds) = {}
     THEN pc' = "done" /\ resp' = SimResult(<<>>, TRUE) /\ locals' = locals
     ELSE /\ pc' = "similarity" /\ resp' = resp
          /\ locals' = [locals EXCEPT !.relatedIds = IdSeq(RelatedIds(req.entityIds))]
  /\ UNCHANGED <<store, req, traversal>>

\* const results = await query(similaritySql, similarityParams)
SimSimilarity ==
  /\ req.op = "similarity" /\ pc = "similarity"
  /\ qcount' = qcount + 1
  /\ IF ~QueryOk(SimilarityParams(locals.relatedIds, req))
     THEN pc' = "done" /\ resp' = SimError(500) /\ locals' = locals
     ELSE /\ pc' = "sourceEntities" /\ resp' = resp
          /\ \E rows \in SimilarityResults(Range(locals.relatedIds), req) :
               locals' = [locals EXCEPT !.results = rows]
  /\ UNCHANGED <<store, req, traversal>>

\* const sourceEntities = await query(sourceEntitiesSql, entityIds); the response
SimSourceEntities ==
  /\ req.op = "similarity" /\ pc = "sourceEntities"
  /\ qcount' = qcount + 1
  /\ pc' = "done"
  /\ resp' = IF QueryOk(StrParams(req.entityIds))
             THEN SimResult(locals.results, FALSE) ELSE SimError(500)
  /\ UNCHANGED <<store, handler, traversal>>

\* a query is rejected by the storage layer: the catch answers 500
SimFail ==
  /\ req.op = "similarity"
  /\ pc \in {"sourceRelations", "similarity", "sourceEntities"}
       \/ (pc = "check" /\ SimilarityValid(req))
  /\ qcount' = qcount + 1
  /\ pc' = "done" /\ resp' = SimError(500)
  /\ locals' = [locals EXCEPT !.fault = TRUE]
  /\ UNCHANGED <<store, req, traversal>>

(***************************************************************************)
(* Specification of one similarity request over every graph of at most     *)
(* MaxRels relationships of two types between NumEntities entities.        *)
(***************************************************************************)
QId == <<"x", "?">>       \* the id text x?
OtherProject == <<"other">>

\* stored entities: types alternate, the second has a low confidence and the
\* third lives in another project
SimEntity(i) ==
  MkEntity(EntityId(i),
           IF i % 2 = 0 THEN "Function" ELSE "Component",
           IF i = 3 THEN OtherProject ELSE DefaultProject,
           IF i = 2 THEN 2 ELSE 5)

SeedLists ==
  UNION {[1..k -> {EntityId(1), EntityId(2), MissingId, QId}] : k \in 0..MaxSeeds}

SimilarityRequests ==
  LET SimilarityRequest(ids, project, types, conf, max) ==
        [op |-> "similarity", entityIds |-> ids, projectId |-> project,
         entityTypes |-> types, minConfidence |-> conf, maxResults |-> max,
         relationshipWeight |-> None, attributeWeight |-> None]
  IN {SimilarityRequest(ids, None, None, None, None) : ids \in SeedLists}
      \cup {SimilarityRequest(ids, Some(DefaultProject), Some(<<>>), Some(0), Some(1)) :
              ids \in {<<EntityId(1)>>, <<EntityId(1), EntityId(2)>>}}
      \cup {SimilarityRequest(ids, None, Some(<<"Component">>), Some(5), None) :
              ids \in {<<EntityId(1)>>, <<EntityId(1), EntityId(2)>>}}
      \cup {SimilarityRequest(<<EntityId(1)>>, None, None, c, m) :
              c \in {Some(11)}, m \in {Some(0), None}}

InitSimilarity ==
  /\ projects = {DefaultProject, OtherProject}
  /\ entities = [e \in EntityIds(NumEntities) |->
                   SimEntity(CHOOSE i \in 1..NumEntities : EntityId(i) = e)]
  /\ relationships \in GraphsOver(EntityIds(NumEntities), RelTypes, MaxRels)
  /\ observations = <<>>
  /\ req \in SimilarityRequests
  /\ pc = "check"
  /\ resp = NoResp
  /\ qcount = 0
  /\ visitedIds = {}
  /\ frame = NoFrames
  /\ queried = NoQueries
  /\ locals = NoLocals

NextSimilarity ==
  \/ SimCheck
  \/ SimSourceRelations
  \/ SimSimilarity
  \/ SimSourceEntities
  \/ SimFail

SpecSimilarity == InitSimilarity /\ [][NextSimilarity]_vars

(***************************************************************************)
(* Similarity requests with weights for the seed e1 over the graphs in     *)
(* which e1 is related to e2 and to e3 and at most MaxRels further         *)
(* relationships exist.                                                    *)
(***************************************************************************)
WeightedRequests ==
  {[op |-> "similarity", entityIds |-> <<EntityId(1)>>, projectId |-> None,
    entityTypes |-> None, minConfidence |-> Some(0), maxResults |-> None,
    relationshipWeight |-> w, attributeWeight |-> a] :
     w \in {None, Some(0), Some(10), Some(11)}, a \in {None, Some(10)}}

InitWeighted ==
  /\ projects = {DefaultProject, OtherProject}
  /\ entities = [e \in EntityIds(NumEntities) |->
                   SimEntity(CHOOSE i \in 1..NumEntities : EntityId(i) = e)]
  /\ relationships \in
       {<<MkRel(EntityId(1), EntityId(2), "DependsOn", 5),
          MkRel(EntityId(3), EntityId(1), "Uses", 5)>> \o g :
          g \in GraphsOver(EntityIds(NumEntities), RelTypes, MaxRels)}
  /\ observations = <<>>
  /\ req \in WeightedRequests
  /\ pc = "check"
  /\ resp = NoResp
  /\ qcount = 0
  /\ visitedIds = {}
  /\ frame = NoFrames
  /\ queried = NoQueries
  /\ locals = NoLocals

SpecWeighted == InitWeighted /\ [][NextSimilarity]_vars

(***************************************************************************)
(* Properties of the similarity engine.                                    *)
(***************************************************************************)
Answered(op) == req.op = op /\ pc = "done"
SeedExists == \E i \in DOMAIN req.entityIds : req.entityIds[i] \in DOMAIN entities

\* C4: no id listed in the request's entityIds appears in the similarEntities
\* list of the response, neither in the rows held by the handler before the
\* response is built.
C4_NoSeedInResult ==
  req.op = "similarity" =>
    /\ \A i \in DOMAIN locals.results :
         locals.results[i].id \notin Range(req.entityIds)
    /\ pc = "done" =>
         \A i \in DOMAIN resp.similarEntities :
           resp.similarEntities[i].id \notin Range(req.entityIds)

\* a similarity request whose seed has a relationship has been answered with
\* a non-empty list of similar entities
C4_Witness ==
  /\ Answered("similarity") /\ resp.status = 200
  /\ Len(resp.similarEntities) >= 1
  /\ \E r \in DOMAIN relationships : relationships[r].from \in Range(req.entityIds)

\* the first-hop neighbors of the seeds
FirstHop ==
  {n \in DOMAIN entities \ Range(req.entityIds) :
     \E r \in DOMAIN relationships :
       \/ relationships[r].from \in Range(req.entityIds) /\ relationships[r].to = n
       \/ relationships[r].to \in Range(req.entityIds) /\ relationships[r].from = n}

\* the relationships, with neither endpoint a seed, that link c to a
\* first-hop neighbor of the seeds
Links(c) ==
  {r \in DOMAIN relationships :
     /\ relationships[r].from \notin Range(req.entityIds)
     /\ relationships[r].to \notin Range(req.entityIds)
     /\ \/ relationships[r].from = c /\ relationships[r].to \in FirstHop
        \/ relationships[r].to = c /\ relationships[r].from \in FirstHop}

\* C24: for every candidate of an answered similarity request,
\* connectionScore is the number of relationships, with neither endpoint a
\* seed, that link it to a first-hop neighbor of the seeds, relationDiversity
\* the number of their distinct types, and similarityScore the product of
\* the two and relationshipWeight (attributeWeight does not enter).
C24_SimilarityScores ==
  (Answered("similarity") /\ resp.status = 200) =>
    \A i \in DOMAIN resp.similarEntities :
      LET row == resp.similarEntities[i]
      IN /\ row.connectionScore = Cardinality(Links(row.id))
         /\ row.relationDiversity
              = Cardinality({relationships[r].rtype : r \in Links(row.id)})
         /\ row.similarityScore
              = Cardinality(Links(row.id))
                  * Cardinality({relationships[r].rtype : r \in Links(row.id)})
                  * OrDefault(req.relationshipWeight, 7)

\* C5: a valid similarity request is answered 404 exactly when none of its
\* seed ids exists, and then after the existence check alone, unless the
\* storage layer itself failed.
C5_NotFoundExactly ==
  (Answered("similarity") /\ SimilarityValid(req) /\ ~locals.fault) =>
    /\ resp.status = 404 <=> ~SeedExists
    /\ resp.status = 404 => qcount = 1

\* C6: a valid similarity request with an existing seed and no relationship
\* between a seed and a non-seed entity is answered 200 with an empty list,
\* total 0 and a message, unless the storage layer itself failed.
C6_EmptyNeighbourhood ==
  (/\ Answered("similarity") /\ SimilarityValid(req) /\ ~locals.fault
   /\ SeedExists
   /\ RelatedIds(req.entityIds) = {}) =>
    /\ resp.status = 200 /\ resp.hasResult
    /\ resp.similarEntities = <<>> /\ resp.total = 0 /\ resp.message


(***************************************************************************)
(* The write operations: POST /api/entities, POST /api/relationships,      *)
(* PUT /api/relationships/{id}, POST /api/agent/update, /agent/confidence  *)
(* and /agent/invalidate.  Requests are served one after the other; a      *)
(* handler is applied to the store as a whole, statement by statement.     *)
(***************************************************************************)
StoredEntities == 2   \* entities the store holds at most
StoredRels == 1       \* relationships the store holds at most
StoredObs == 2        \* observations the store holds at most
MaxRequests == 3      \* write requests served one after the other

KeyPool == <<"1", "2", "3", "4">>
RelKey(i) == <<"r", KeyPool[i]>>
ObsKey(i) == <<"o", KeyPool[i]>>

Store == [projects |-> projects, entities |-> entities,
          relationships |-> relationships, observations |-> observations]

MkObs(entity, content, confidence, valid) ==
  [entity |-> entity, content |-> content, confidence |-> confidence, valid |-> valid]

\* uuidv4(): an id no stored row has
NewId(S) == EntityId(Cardinality(DOMAIN S.entities) + 1)

Put(f, k, v) == [x \in DOMAIN f \cup {k} |-> IF x = k THEN v ELSE f[x]]

\* the variant that checks the lower end only
InUnitNoMax(x) == x >= 0

\* z.number().min(0).max(1)
InUnit(x) == x \in 0..10

\* confidence || 0.5, strength || 0.5
OrHalf(o) == IF o.k = "absent" \/ o.v = 0 THEN 5 ELSE o.v

Timestamp == Str(<<"2025-01-01T00:00:00.000Z">>)

\* POST /api/entities
PostEntityOut(S, b) ==
  LET id == OrDefault(b.id, NewId(S))
  IN IF ~(b.confidence.k = "some" /\ InUnit(b.confidence.v))
     THEN [s |-> S, status |-> 400]
     ELSE IF b.projectId \notin S.projects
     THEN [s |-> S, status |-> 404]
     ELSE IF \/ ~QueryOk(<<Str(id), Str(b.name), Str(b.entityType), Str(b.projectId),
                           Str(<<"{}">>), Num(b.confidence.v), Timestamp, Timestamp,
                           Null>>)
             \/ id \in DOMAIN S.entities
     THEN [s |-> S, status |-> 500]
     ELSE [s |-> [S EXCEPT !.entities =
                    Put(@, id, MkEntity(b.name, b.entityType, b.projectId,
                                        b.confidence.v))],
           status |-> 201]

\* the mutant of EndpointsExist: only the from entity is looked up
EndpointsExistFromOnly(S, b) == b.fromEntityId \in DOMAIN S.entities

\* the two lookups SELECT id FROM entities WHERE id = ? of POST
\* /api/relationships both return a row
EndpointsExist(S, b) ==
  b.fromEntityId \in DOMAIN S.entities /\ b.toEntityId \in DOMAIN S.entities

\* POST /api/relationships
PostRelationshipOut(S, b) ==
  IF ~(b.strength.k = "some" /\ InUnit(b.strength.v))
  THEN [s |-> S, status |-> 400]
  ELSE IF ~EndpointsExist(S, b)
  THEN [s |-> S, status |-> 404]
  ELSE IF ~QueryOk(<<Str(RelKey(Len(S.relationships) + 1)), Str(b.fromEntityId),
                     Str(b.toEntityId), Str(<<b.relationType>>), Num(b.strength.v),
                     Str(<<"{}">>), Timestamp, Timestamp, Null>>)
  THEN [s |-> S, status |-> 500]
  ELSE [s |-> [S EXCEPT !.relationships =
                 Append(@, MkRel(b.fromEntityId, b.toEntityId, b.relationType,
                                 b.strength.v))],
        status |-> 201]

\* PUT /api/relationships/{id}: the body is parsed JSON, so createdAt is no
\* Date and RelationshipSchema.parse throws for every body
PutRelationshipOut(S, b) ==
  IF \E i \in DOMAIN S.relationships : RelKey(i) = b.id
  THEN [s |-> S, status |-> 400]
  ELSE [s |-> S, status |-> 404]

\* the variant that looks among the valid observations only
ExistingObservationsValid(S, e, content) ==
  {o \in DOMAIN S.observations :
     /\ S.observations[o].entity = e /\ S.observations[o].content = content
     /\ S.observations[o].valid}

\* SELECT id, content, version FROM observations WHERE entity_id = ? AND
\* content = ?
ExistingObservations(S, e, content) ==
  {o \in DOMAIN S.observations :
     S.observations[o].entity = e /\ S.observations[o].content = content}

RECURSIVE UpdateObservations(_, _, _, _)
\* for (const content of observations): insert the contents the entity lacks;
\* a rejected statement leaves the loop through the catch of the entity
UpdateObservations(S, e, contents, item) ==
  IF contents = <<>> THEN S
  ELSE IF ExistingObservations(S, e, Head(contents)) # {}
  THEN UpdateObservations(S, e, Tail(contents), item)
  ELSE IF ~QueryOk(<<Str(ObsKey(Len(S.observations) + 1)), Str(e), Str(Head(contents)),
                     Num(OrHalf(item.confidence)), Str(<<"conversation">>)>>)
  THEN S
  ELSE UpdateObservations(
         [S EXCEPT !.observations =
            Append(@, MkObs(e, Head(contents), OrHalf(item.confidence), TRUE))],
         e, Tail(contents), item)

\* the mutant of ExistingEntities: the lookup returns no row
ExistingEntitiesNone(S, name, project) == <<>>

\* SELECT id FROM entities WHERE name = ? AND project_id = ?
ExistingEntities(S, name, project) ==
  IdSeq({e \in DOMAIN S.entities :
           S.entities[e].name = name /\ S.entities[e].project = project})

RECURSIVE UpdateEntities(_, _, _)
\* for (const entity of entities): update the entity of that name and project
\* or insert it, then its observations.  An omitted confidence reaches the
\* UPDATE as the text 'null', which is no FLOAT: the statement is rejected.
UpdateEntities(acc, items, r) ==
  IF items = <<>> THEN acc
  ELSE LET it == Head(items)
           S == acc.s
           found == ExistingEntities(S, it.name, r.projectId)
           id == IF found # <<>> THEN found[1] ELSE NewId(S)
           ok == /\ QueryOk(<<Str(it.name), Str(r.projectId)>>)
                 /\ IF found # <<>>
                    THEN /\ it.confidence.k = "some"
                         /\ QueryOk(<<Str(<<it.entityType>>), Null, Null,
                                      Num(it.confidence.v), Num(it.confidence.v),
                                      Str(<<"conversation">>), Str(id)>>)
                    ELSE QueryOk(<<Str(id), Str(it.name), Str(<<it.entityType>>),
                                   Str(r.projectId), Str(<<"{}">>),
                                   Num(OrHalf(it.confidence)), Str(<<"conversation">>)>>)
           S1 == IF found # <<>>
                 THEN [S EXCEPT !.entities[id].etype = it.entityType,
                                !.entities[id].confidence = it.confidence.v]
                 ELSE [S EXCEPT !.entities =
                         Put(@, id, MkEntity(it.name, it.entityType, r.projectId,
                                             OrHalf(it.confidence)))]
       IN UpdateEntities(
            IF ok THEN [s |-> UpdateObservations(S1, id, OrDefault(it.observations, <<>>), it),
                        ids |-> Put(acc.ids, it.name, id)]
                  ELSE acc,
            Tail(items), r)

RECURSIVE UpdateRelationships(_, _, _)
\* for (const relationship of relationships): between entities named in this
\* request only; update the row of that from / to / type or insert it
UpdateRelationships(acc, items, r) ==
  IF items = <<>> THEN acc.s
  ELSE LET it == Head(items)
           S == acc.s
           known == it.fromEntityName \in DOMAIN acc.ids /\ it.toEntityName \in DOMAIN acc.ids
           from == acc.ids[it.fromEntityName]
           to == acc.ids[it.toEntityName]
           found == {i \in DOMAIN S.relationships :
                       S.relationships[i] =
                         [S.relationships[i] EXCEPT !.from = from, !.to = to,
                                                    !.rtype = it.relationType]}
           i == CHOOSE x \in found : \A y \in found : x <= y
           ok == /\ QueryOk(<<Str(from), Str(to), Str(<<it.relationType>>)>>)
                 /\ IF found # {}
                    THEN /\ it.strength.k = "some"
                         /\ QueryOk(<<Num(it.strength.v), Num(it.strength.v), Null, Null,
                                      Str(<<"conversation">>), Str(RelKey(i))>>)
                    ELSE QueryOk(<<Str(RelKey(Len(S.relationships) + 1)), Str(from),
                                   Str(to), Str(<<it.relationType>>),
                                   Num(OrHalf(it.strength)), Str(<<"{}">>),
                                   Str(<<"conversation">>)>>)
           S1 == IF found # {}
                 THEN [S EXCEPT !.relationships[i].strength = it.strength.v]
                 ELSE [S EXCEPT !.relationships =
                         Append(@, MkRel(from, to, it.relationType, OrHalf(it.strength)))]
       IN UpdateRelationships([acc EXCEPT !.s = IF known /\ ok THEN S1 ELSE S],
                              Tail(items), r)

\* AgentKnowledgeUpdateSchema.safeParse(body).success
AgentUpdateValid(r) ==
  /\ \A i \in DOMAIN r.entities :
       r.entities[i].confidence.k = "some" => InUnit(r.entities[i].confidence.v)
  /\ \A i \in DOMAIN OrDefault(r.relationships, <<>>) :
       r.relationships.v[i].strength.k = "some" => InUnit(r.relationships.v[i].strength.v)

\* POST /api/agent/update
AgentUpdateOut(S, r) ==
  LET known == r.projectId \in S.projects
      S0 == IF known THEN S ELSE [S EXCEPT !.projects = @ \cup {r.projectId}]
  IN IF ~AgentUpdateValid(r) THEN [s |-> S, status |-> 400]
     ELSE IF ~known /\ r.projectName.k = "absent" THEN [s |-> S, status |-> 400]
     ELSE IF ~known /\ ~QueryOk(<<Str(r.projectId), Str(r.projectName.v),
                                  Str(<<"Project created by AI agent from conversation ",
                                        "conversation">>)>>)
     THEN [s |-> S, status |-> 500]
     ELSE [s |-> UpdateRelationships(UpdateEntities([s |-> S0, ids |-> <<>>], r.entities, r),
                                     OrDefault(r.relationships, <<>>), r),
           status |-> 200]

RECURSIVE UpdateConfidences(_, _)
\* for (const update of updates): the first of entityId, entityName,
\* relationshipId, observationId that is given selects the rows
UpdateConfidences(S, updates) ==
  IF updates = <<>> THEN S
  ELSE LET u == Head(updates)
           c == u.confidence
           S1 ==
             IF u.entityId.k = "some"
             THEN [S EXCEPT !.entities =
                     [e \in DOMAIN @ |-> IF e = u.entityId.v /\ QueryOk(<<Num(c), Str(e)>>)
                                         THEN [@[e] EXCEPT !.confidence = c] ELSE @[e]]]
             ELSE IF u.entityName.k = "some"
             THEN [S EXCEPT !.entities =
                     [e \in DOMAIN @ |-> IF @[e].name = u.entityName.v
                                         THEN [@[e] EXCEPT !.confidence = c] ELSE @[e]]]
             ELSE IF u.relationshipId.k = "some"
             THEN [S EXCEPT !.relationships =
                     [i \in DOMAIN @ |-> IF RelKey(i) = u.relationshipId.v
                                         THEN [@[i] EXCEPT !.strength = c] ELSE @[i]]]
             ELSE IF u.observationId.k = "some"
             THEN [S EXCEPT !.observations =
                     [i \in DOMAIN @ |-> IF ObsKey(i) = u.observationId.v
                                         THEN [@[i] EXCEPT !.confidence = c] ELSE @[i]]]
             ELSE S
       IN UpdateConfidences(S1, Tail(updates))

\* POST /api/agent/confidence
AgentConfidenceOut(S, r) ==
  IF ~(\A i \in DOMAIN r.updates : InUnit(r.updates[i].confidence)) \/ r.updates = <<>>
  THEN [s |-> S, status |-> 400]
  ELSE [s |-> UpdateConfidences(S, r.updates), status |-> 200]

\* JSON.stringify({ invalidatedAt, reason: reason || 'Invalidated by agent request' })
InvalidationMetadata(r) ==
  Str(<<"{\"invalidatedAt\":\"2025-01-01T00:00:00.000Z\",\"reason\":\"">>
        \o OrDefault(r.reason, <<"Invalidated by agent request">>) \o <<"\"}">>)

\* UPDATE entities SET confidence = 0.1 ... WHERE id IN (ids), then UPDATE
\* observations SET is_valid = false WHERE entity_id IN (ids), inside one try
InvalidateEntities(S, ids, r) ==
  LET first == QueryOk(<<InvalidationMetadata(r)>> \o StrParams(ids))
      second == first /\ QueryOk(StrParams(ids))
  IN [S EXCEPT
        !.entities = [e \in DOMAIN @ |->
                        IF first /\ e \in Range(ids)
                        THEN [@[e] EXCEPT !.confidence = 1] ELSE @[e]],
        !.observations = [o \in DOMAIN @ |->
                            IF second /\ @[o].entity \in Range(ids)
                            THEN [@[o] EXCEPT !.valid = FALSE] ELSE @[o]]]

\* POST /api/agent/invalidate: by id, by name, relationships, observations,
\* each part in a try of its own whose catch only logs
AgentInvalidateOut(S, r) ==
  LET ids == OrDefault(r.entityIds, <<>>)
      names == OrDefault(r.entityNames, <<>>)
      rels == OrDefault(r.relationshipIds, <<>>)
      obs == OrDefault(r.observationIds, <<>>)
      S1 == IF ids # <<>> THEN InvalidateEntities(S, ids, r) ELSE S
      foundIds == IF names # <<>> /\ QueryOk(StrParams(names))
                  THEN IdSeq({e \in DOMAIN S1.entities : S1.entities[e].name \in Range(names)})
                  ELSE <<>>
      S2 == IF foundIds # <<>> THEN InvalidateEntities(S1, foundIds, r) ELSE S1
      S3 == IF rels # <<>> /\ QueryOk(<<InvalidationMetadata(r)>> \o StrParams(rels))
            THEN [S2 EXCEPT !.relationships =
                    [i \in DOMAIN @ |-> IF RelKey(i) \in Range(rels)
                                        THEN [@[i] EXCEPT !.strength = 1] ELSE @[i]]]
            ELSE S2
      S4 == IF obs # <<>> /\ QueryOk(StrParams(obs))
            THEN [S3 EXCEPT !.observations =
                    [i \in DOMAIN @ |-> IF ObsKey(i) \in Range(obs)
                                        THEN [@[i] EXCEPT !.valid = FALSE] ELSE @[i]]]
            ELSE S3
  IN IF ids = <<>> /\ names = <<>> /\ rels = <<>> /\ obs = <<>>
     THEN [s |-> S, status |-> 400]
     ELSE [s |-> S4, status |-> 200]

\* a request is served: the store before it is kept for the properties
Served(r, out) ==
  /\ locals.served < MaxRequests
  /\ Cardinality(DOMAIN out.s.entities) <= StoredEntities
  /\ Len(out.s.relationships) <= StoredRels
  /\ Len(out.s.observations) <= StoredObs
  /\ req' = r
  /\ locals' = [NoLocals EXCEPT !.before = Store, !.served = locals.served + 1]
  /\ projects' = out.s.projects
  /\ entities' = out.s.entities
  /\ relationships' = out.s.relationships
  /\ observations' = out.s.observations
  /\ resp' = [status |-> out.status]
  /\ UNCHANGED <<pc, qcount, traversal>>

(***************************************************************************)
(* Specification of every sequence of write requests from the store that   *)
(* holds the default project only.                                         *)
(***************************************************************************)
NameA == <<"A">>
NameB == <<"B">>
NameQ == <<"A", "?">>     \* the name text A?
Why == <<"why", "?">>     \* the reason text why?

EntityBodies ==
  LET EntityBody(name, project, confidence, id) ==
        [op |-> "postEntity", id |-> id, name |-> name, entityType |-> "Component",
         projectId |-> project, confidence |-> confidence]
  IN {EntityBody(n, DefaultProject, Some(c), None) : n \in {NameA, NameB}, c \in {0, 10}}
      \cup {EntityBody(NameA, DefaultProject, c, None) : c \in {None, Some(11), Some(0 - 1)}}
      \cup {EntityBody(NameA, MissingId, Some(10), None),
            EntityBody(NameQ, DefaultProject, Some(10), None),
            EntityBody(NameB, DefaultProject, Some(10), Some(EntityId(1)))}

RelationshipBodies ==
  LET RelationshipBody(from, to, strength) ==
        [op |-> "postRelationship", fromEntityId |-> from, toEntityId |-> to,
         relationType |-> "DependsOn", strength |-> strength]
  IN {RelationshipBody(EntityId(1), EntityId(2), s) : s \in {None, Some(0), Some(10), Some(11)}}
      \cup {RelationshipBody(EntityId(1), EntityId(1), Some(10)),
            RelationshipBody(EntityId(1), MissingId, Some(10))}

PutBodies == {[op |-> "putRelationship", id |-> k] : k \in {RelKey(1), RelKey(4)}}

AgentUpdates ==
  LET Item(name, confidence, notes) ==
        [name |-> name, entityType |-> "Component", confidence |-> confidence,
         observations |-> notes]
      Link(from, to, strength) ==
        [fromEntityName |-> from, toEntityName |-> to, relationType |-> "Uses",
         strength |-> strength]
      Update(project, name, items, links) ==
        [op |-> "agentUpdate", projectId |-> project, projectName |-> name,
         entities |-> items, relationships |-> links]
  IN {Update(DefaultProject, None, <<Item(NameA, c, o)>>, None) :
       c \in {None, Some(0), Some(10)}, o \in {None, Some(<<<<"note">>>>)}}
      \cup {Update(DefaultProject, None, <<Item(NameA, None, None), Item(NameB, Some(10), None)>>,
                   Some(<<Link(NameA, NameB, s)>>)) : s \in {None, Some(0), Some(10), Some(11)}}
      \cup {Update(DefaultProject, None,
                   <<Item(NameA, Some(0), Some(<<<<"note">>, <<"note">>>>)),
                     Item(NameB, Some(10), None), Item(NameA, Some(10), None)>>,
                   Some(<<Link(NameA, NameB, Some(0)), Link(NameA, NameB, None)>>))}
      \cup {Update(DefaultProject, None, <<Item(NameA, Some(11), None)>>, None),
            Update(DefaultProject, None, <<Item(NameQ, Some(10), None)>>, None),
            Update(OtherProject, Some(<<"Other">>), <<Item(NameA, Some(10), None)>>, None),
            Update(MissingId, None, <<Item(NameA, Some(10), None)>>, None)}

ConfidenceUpdates ==
  LET ConfidenceUpdate(eid, ename, rid, oid, c) ==
        [entityId |-> eid, entityName |-> ename, relationshipId |-> rid,
         observationId |-> oid, confidence |-> c]
  IN {[op |-> "agentConfidence", updates |-> u] :
       u \in {<<>>} \cup
             {<<ConfidenceUpdate(t[1], t[2], t[3], t[4], c)>> :
                t \in {<<Some(EntityId(1)), None, None, None>>,
                       <<None, Some(NameA), None, None>>,
                       <<None, None, Some(RelKey(1)), None>>,
                       <<None, None, None, Some(ObsKey(1))>>,
                       <<None, None, None, None>>},
                c \in {0, 10, 11}}}

Invalidations ==
  LET Invalidation(ids, names, rels, obs, reason) ==
        [op |-> "agentInvalidate", entityIds |-> ids, entityNames |-> names,
         relationshipIds |-> rels, observationIds |-> obs, reason |-> reason]
  IN {Invalidation(Some(ids), None, None, None, reason) :
       ids \in {<<EntityId(1)>>, <<EntityId(1), EntityId(2)>>, <<QId, EntityId(1)>>},
       reason \in {None, Some(Why)}}
      \cup {Invalidation(None, Some(names), None, None, reason) :
              names \in {<<NameA>>, <<NameQ, NameA>>}, reason \in {None, Some(<<"stale">>)}}
      \cup {Invalidation(None, None, Some(<<RelKey(1)>>), None, None),
            Invalidation(None, None, None, Some(<<ObsKey(1)>>), None),
            Invalidation(Some(<<EntityId(2)>>), Some(<<NameA>>), Some(<<RelKey(1)>>),
                         Some(<<ObsKey(1)>>), None),
            Invalidation(None, None, None, None, None),
            Invalidation(Some(<<>>), None, None, None, Some(Why))}

PostEntity ==
  \E b \in EntityBodies : \E out \in {PostEntityOut(Store, b)} : Served(b, out)
PostRelationship ==
  \E b \in RelationshipBodies : \E out \in {PostRelationshipOut(Store, b)} : Served(b, out)
PutRelationship ==
  \E b \in PutBodies : \E out \in {PutRelationshipOut(Store, b)} : Served(b, out)
AgentUpdate ==
  \E r \in AgentUpdates : \E out \in {AgentUpdateOut(Store, r)} : Served(r, out)
AgentConfidence ==
  \E r \in ConfidenceUpdates : \E out \in {AgentConfidenceOut(Store, r)} : Served(r, out)
AgentInvalidate ==
  \E r \in Invalidations : \E out \in {AgentInvalidateOut(Store, r)} : Served(r, out)

InitWrite ==
  /\ projects = {DefaultProject}
  /\ entities = <<>>
  /\ relationships = <<>>
  /\ observations = <<>>
  /\ req = [op |-> "none"]
  /\ pc = "idle"
  /\ resp = NoResp
  /\ qcount = 0
  /\ visitedIds = {}
  /\ frame = <<>>
  /\ queried = <<>>
  /\ locals = NoLocals

NextWrite ==
  \/ PostEntity
  \/ PostRelationship
  \/ PutRelationship
  \/ AgentUpdate
  \/ AgentConfidence
  \/ AgentInvalidate

SpecWrite == InitWrite /\ [][NextWrite]_vars

(***************************************************************************)
(* Properties of the write operations.                                     *)
(***************************************************************************)
\* the entities stored before the request that an invalidation names
Targets ==
  {e \in DOMAIN locals.before.entities :
     \/ e \in Range(OrDefault(req.entityIds, <<>>))
     \/ locals.before.entities[e].name \in Range(OrDefault(req.entityNames, <<>>))}

\* C7: after POST /agent/invalidate has named an existing entity E by id or by
\* name, E's confidence is 0.1 and every observation of E has is_valid =
\* false, and the sets of entity ids and relationship ids are as before.
C7_Invalidated ==
  (req.op = "agentInvalidate" /\ resp.status = 200) =>
    /\ \A e \in Targets :
         /\ e \in DOMAIN entities
         /\ entities[e].confidence = 1
         /\ \A o \in ObservationsOf(e) : ~observations[o].valid
    /\ DOMAIN entities = DOMAIN locals.before.entities
    /\ DOMAIN relationships = DOMAIN locals.before.relationships

\* C8: after any sequence of write operations every stored entity confidence,
\* relationship strength and observation confidence lies in [0, 1].
C8_UnitRange ==
  /\ \A e \in DOMAIN entities : entities[e].confidence \in 0..10
  /\ \A r \in DOMAIN relationships : relationships[r].strength \in 0..10
  /\ \A o \in DOMAIN observations : observations[o].confidence \in 0..10

\* three write requests have been served and the store holds an entity of
\* confidence 1.0, an invalidated entity, a relationship of default strength
\* and an observation
C8_Witness ==
  /\ locals.served = 3 /\ resp.status = 200
  /\ \E e \in DOMAIN entities : entities[e].confidence = 10
  /\ \E e \in DOMAIN entities : entities[e].confidence = 1
  /\ \E r \in DOMAIN relationships : relationships[r].strength = 5
  /\ \E o \in DOMAIN observations : observations[o].confidence \in {0, 5, 10}


\* C16: POST /relationships inserts a row only if both fromEntityId and
\* toEntityId were stored when the request came; a request that passes
\* validation and names a missing endpoint is answered 404 and leaves the
\* relationships as they were.
C16_EndpointsMustExist ==
  req.op = "postRelationship" =>
    /\ relationships # locals.before.relationships
         => /\ req.fromEntityId \in DOMAIN locals.before.entities
            /\ req.toEntityId \in DOMAIN locals.before.entities
    /\ ( /\ req.strength.k = "some" /\ req.strength.v \in 0..10
         /\ \/ req.fromEntityId \notin DOMAIN locals.before.entities
            \/ req.toEntityId \notin DOMAIN locals.before.entities )
         => resp.status = 404 /\ relationships = locals.before.relationships

\* a valid POST /relationships from a stored entity to an id that is not
\* stored has been answered
C16_Witness ==
  /\ req.op = "postRelationship"
  /\ req.strength.k = "some" /\ req.strength.v \in 0..10
  /\ req.fromEntityId \in DOMAIN locals.before.entities
  /\ req.toEntityId \notin DOMAIN locals.before.entities
  /\ resp.status = 404

(***************************************************************************)
(* Specification of every sequence of POST /api/agent/update requests from *)
(* the store that holds the default project only.                          *)
(***************************************************************************)
SpecAgentUpdate == InitWrite /\ [][AgentUpdate]_vars

C29_ValidityMonotone ==
  [][ \A o \in DOMAIN observations :
        ~observations[o].valid =>
          /\ o \in DOMAIN observations'
          /\ observations'[o] = [observations[o] EXCEPT !.confidence = observations'[o].confidence]
          /\ \A p \in DOMAIN observations' :
               ( /\ observations'[p].entity = observations[o].entity
                 /\ observations'[p].content = observations[o].content )
                 => ~observations'[p].valid ]_vars

\* an agent update has named again, with the same content, an observation
\* that was invalid before it: the entity has been updated, and the
\* observations are as before
C29_Witness ==
  /\ req.op = "agentUpdate" /\ resp.status = 200
  /\ observations = locals.before.observations
  /\ \E o \in DOMAIN locals.before.observations : \E i \in DOMAIN req.entities :
       LET e == locals.before.observations[o].entity
       IN /\ ~locals.before.observations[o].valid
          /\ e \in DOMAIN locals.before.entities
          /\ locals.before.entities[e].name = req.entities[i].name
          /\ locals.before.entities[e].project = req.projectId
          /\ locals.before.observations[o].content
               \in Range(OrDefault(req.entities[i].observations, <<>>))
          /\ entities[e].confidence # locals.before.entities[e].confidence

\* C27: a row that an agent update has created for an entity (resp.
\* relationship) it names once carries the confidence (resp. strength) the
\* request gives for it, 0 included, and 0.5 only where the request gives
\* none
C27_ExplicitValueStored ==
  (req.op = "agentUpdate" /\ resp.status = 200) =>
    /\ \A e \in DOMAIN entities \ DOMAIN locals.before.entities :
         \A i \in DOMAIN req.entities :
           ( /\ entities[e].name = req.entities[i].name
             /\ entities[e].project = req.projectId
             /\ \A j \in DOMAIN req.entities :
                  req.entities[j].name = req.entities[i].name => j = i )
             => entities[e].confidence = OrDefault(req.entities[i].confidence, 5)
    /\ \A r \in DOMAIN relationships \ DOMAIN locals.before.relationships :
         \A i \in DOMAIN OrDefault(req.relationships, <<>>) :
           LET link == req.relationships.v[i]
           IN ( /\ entities[relationships[r].from].name = link.fromEntityName
                /\ entities[relationships[r].to].name = link.toEntityName
                /\ relationships[r].rtype = link.relationType
                /\ \A j \in DOMAIN req.relationships.v :
                     req.relationships.v[j]
                       = [req.relationships.v[j] EXCEPT
                            !.fromEntityName = link.fromEntityName,
                            !.toEntityName = link.toEntityName,
                            !.relationType = link.relationType] => j = i )
                => relationships[r].strength = OrDefault(link.strength, 5)

(***************************************************************************)
(* POST /api/context/search (src/src/app/api/context/search/route.ts).     *)
(* A text is the sequence of its characters.  The statement is read as its *)
(* author wrote it: "..." is a string and e.metadata->>"$.f" is the text   *)
(* of key f of the metadata.  The request fields includeMetadata and       *)
(* includeRelationships only decorate the rows of the answer and are not   *)
(* part of the request of the model.                                       *)
(***************************************************************************)
\* String.prototype.toLowerCase over the alphabet of the model
ToLowerCase(s) ==
  [i \in DOMAIN s |-> CASE s[i] = "A" -> "a" [] s[i] = "B" -> "b"
                        [] s[i] = "X" -> "x" [] OTHER -> s[i]]

RECURSIVE Split(_, _)
\* String.prototype.split(sep): the text without separator is one piece, the
\* empty text included
Split(s, sep) ==
  LET seps == {i \in DOMAIN s : s[i] = sep}
      first == CHOOSE i \in seps : \A j \in seps : i <= j
  IN IF seps = {} THEN <<s>>
     ELSE <<SubSeq(s, 1, first - 1)>> \o Split(SubSeq(s, first + 1, Len(s)), sep)

\* searchQuery.split(' ')
SplitSpace(s) == Split(s, " ")

\* searchQuery.split(' ').filter(term => term.length > 1)
SearchTerms(q) == SelectSeq(SplitSpace(q), LAMBDA term : Len(term) > 1)

\* `%${text.toLowerCase()}%`
FuzzyTerm(text) == <<"%">> \o ToLowerCase(text) \o <<"%">>

RECURSIVE Like(_, _)
\* <s> LIKE <pattern>: % stands for any text, _ for any one character
Like(s, pattern) ==
  IF pattern = <<>> THEN s = <<>>
  ELSE IF Head(pattern) = "%"
  THEN \E k \in 0..Len(s) : Like(SubSeq(s, k + 1, Len(s)), Tail(pattern))
  ELSE /\ s # <<>>
       /\ Head(pattern) = "_" \/ Head(pattern) = Head(s)
       /\ Like(Tail(s), Tail(pattern))

\* String(n) of a number between 0 and 1, held in tenths
NumText(n) ==
  IF n % 10 = 0 THEN <<ToString(n \div 10)>> ELSE <<ToString(n \div 10), ".", ToString(n % 10)>>

RECURSIVE DigitsValue(_)
DigitsValue(s) ==
  IF s = <<>> THEN 0
  ELSE 10 * DigitsValue(SubSeq(s, 1, Len(s) - 1))
       + (CHOOSE d \in 0..9 : ToString(d) = s[Len(s)])

\* the FLOAT a string literal is cast to when it is compared with the FLOAT
\* column confidence, in tenths; NaN for a text that is no number (the
\* statement is rejected).  The texts of the model have one fractional digit
\* at most.
CastFloat(s) ==
  LET IsDigits(t) == \A i \in DOMAIN t : t[i] \in {ToString(d) : d \in 0..9}
      dots == {i \in DOMAIN s : s[i] = "."}
      dot == CHOOSE i \in dots : TRUE
  IN IF s # <<>> /\ IsDigits(s) THEN 10 * DigitsValue(s)
     ELSE IF /\ Cardinality(dots) = 1 /\ dot = Len(s) - 1
             /\ IsDigits(SubSeq(s, 1, dot - 1)) /\ IsDigits(SubSeq(s, Len(s), Len(s)))
     THEN 10 * DigitsValue(SubSeq(s, 1, dot - 1)) + DigitsValue(SubSeq(s, Len(s), Len(s)))
     ELSE NaN

SortOrders == {"relevance", "confidence", "updated", "created"}

\* searchRequestSchema.safeParse(body).success
SearchValid(r) ==
  /\ Len(r.query) >= 1
  /\ OrDefault(r.maxResults, 20) > 0
  /\ OrDefault(r.minConfidence, 3) \in 0..10
  /\ OrDefault(r.sortBy, "relevance") \in SortOrders

\* the filters that add a condition: `if (projectId)` and
\* `if (entityTypes && entityTypes.length > 0)`
ProjectFilter(r) ==
  IF r.projectId.k = "some" /\ r.projectId.v # <<>> THEN <<r.projectId.v>> ELSE <<>>
TypeFilter(r) == OrDefault(r.entityTypes, <<>>)

\* the fields of one term's group of conditions, in the order of termConditions
TermFields == <<"name", "description", "content", "filePath", "functionName", "className">>

RECURSIVE TermParams(_)
\* searchTerms.forEach(term => params.push(...Array(6).fill(fuzzyTerm)))
TermParams(terms) ==
  IF terms = <<>> THEN <<>>
  ELSE Times(<<Str(FuzzyTerm(Head(terms)))>>, Len(TermFields)) \o TermParams(Tail(terms))

\* params, in the order of the pushes
SearchParams(r) ==
  StrParams(ProjectFilter(r)) \o StrParams(TypeFilter(r))
    \o <<Num(OrDefault(r.minConfidence, 3))>>
    \o (IF OrDefault(r.fuzzyMatch, TRUE) THEN TermParams(SearchTerms(r.query))
        ELSE <<Str(r.query)>>)
    \o <<Str(ToLowerCase(r.query))>> \o Times(<<Str(FuzzyTerm(r.query))>>, 6)
    \o <<Num(OrDefault(r.maxResults, 20))>>

\* the placeholders of the statement in the order of its text: the relevance
\* CASE of the select list, the WHERE clause, LIMIT.  query() hands the i-th
\* parameter to the i-th of them.
SearchBound(r) ==
  LET params == SearchParams(r)
      p == Len(ProjectFilter(r))
      t == Len(TypeFilter(r))
      groups == IF OrDefault(r.fuzzyMatch, TRUE) THEN Len(SearchTerms(r.query)) ELSE 0
      first == 7 + p + t + 1       \* the placeholder of e.confidence >= ?
  IN [nameEquals |-> params[1],
      nameLike |-> params[2],
      filePath |-> params[3],
      functionName |-> params[4],
      className |-> params[5],
      description |-> params[6],
      content |-> params[7],
      project |-> SubSeq(params, 8, 7 + p),
      types |-> SubSeq(params, 8 + p, 7 + p + t),
      confidence |-> params[first],
      terms |-> [g \in 1..groups |->
                   [f \in DOMAIN TermFields |-> params[first + 6 * (g - 1) + f]]],
      exact |-> IF OrDefault(r.fuzzyMatch, TRUE) THEN <<>> ELSE <<params[first + 1]>>,
      limit |-> params[Len(params)]]

\* the text a value stands for where the statement takes a text
Text(v) == IF v.k = "str" THEN v.s ELSE NumText(v.n)

\* the statement is rejected: a text that is no number is compared with the
\* FLOAT column, or a number stands where a text is taken and the engine
\* does not coerce it
SearchRejected(b, coerces) ==
  \/ b.confidence.k = "str" /\ IsNaN(CastFloat(b.confidence.s))
  \/ b.limit.k # "num"
  \/ /\ ~coerces
     /\ \E v \in {b.nameEquals, b.nameLike, b.filePath, b.functionName, b.className,
                  b.description, b.content}
               \cup Range(b.project) \cup Range(b.types) \cup Range(b.exact)
               \cup UNION {Range(b.terms[g]) : g \in DOMAIN b.terms} : v.k = "num"

\* LOWER(e.name) and LOWER(COALESCE(e.metadata->>"$.f", ""))
LowerField(e, f) ==
  ToLowerCase(IF f = "name" THEN e.name
              ELSE IF f \in DOMAIN e.metadata THEN e.metadata[f] ELSE <<>>)

\* the WHERE clause on one row of entities e JOIN projects p
SearchWhere(e, b) ==
  /\ e.project \in projects
  /\ \A i \in DOMAIN b.project : e.project = Text(b.project[i])
  /\ b.types # <<>> => e.etype \in {Text(b.types[i]) : i \in DOMAIN b.types}
  /\ e.confidence >= (IF b.confidence.k = "str" THEN CastFloat(b.confidence.s)
                      ELSE b.confidence.n)
  /\ \A g \in DOMAIN b.terms :
       \E f \in DOMAIN TermFields : Like(LowerField(e, TermFields[f]), Text(b.terms[g][f]))
  /\ \A i \in DOMAIN b.exact : LowerField(e, "name") = ToLowerCase(Text(b.exact[i]))

\* the relevance CASE: the first WHEN that holds
RelevanceTier(e, b) ==
  IF LowerField(e, "name") = ToLowerCase(Text(b.nameEquals)) THEN 100
  ELSE IF Like(LowerField(e, "name"), Text(b.nameLike)) THEN 80
  ELSE IF Like(LowerField(e, "filePath"), Text(b.filePath)) THEN 70
  ELSE IF \/ Like(LowerField(e, "functionName"), Text(b.functionName))
          \/ Like(LowerField(e, "className"), Text(b.className)) THEN 60
  ELSE IF Like(LowerField(e, "description"), Text(b.description)) THEN 50
  ELSE IF Like(LowerField(e, "content"), Text(b.content)) THEN 40
  ELSE 10

SearchRow(id, b) ==
  [id |-> id, name |-> entities[id].name, entityType |-> entities[id].etype,
   confidence |-> entities[id].confidence, metadata |-> entities[id].metadata,
   relevanceScore |-> RelevanceTier(entities[id], b) * entities[id].confidence]

\* the sort clause; updated_at and created_at are not part of the model and
\* rows that tie on the other keys come in any order
SortedBefore(x, y, sortBy) ==
  IF sortBy = "relevance"
  THEN \/ x.relevanceScore > y.relevanceScore
       \/ x.relevanceScore = y.relevanceScore /\ x.confidence >= y.confidence
  ELSE IF sortBy = "confidence"
  THEN \/ x.confidence > y.confidence
       \/ x.confidence = y.confidence /\ x.relevanceScore >= y.relevanceScore
  ELSE TRUE

\* the rows the statement can return
SearchResults(r, b) ==
  LET rows == {SearchRow(id, b) : id \in {e \in DOMAIN entities : SearchWhere(entities[e], b)}}
      n == Cardinality(rows)
      limit == b.limit.n
  IN {SubSeq(s, 1, IF limit < n THEN limit ELSE n) :
        s \in {p \in [1..n -> rows] :
                 /\ Range(p) = rows
                 /\ \A i, j \in 1..n :
                      i < j => SortedBefore(p[i], p[j], OrDefault(r.sortBy, "relevance"))}}

SearchError(status) == [status |-> status, results |-> <<>>, total |-> 0]

\* const validationResult = searchRequestSchema.safeParse(body)
SearchCheck ==
  /\ req.op = "search" /\ pc = "check"
  /\ IF SearchValid(req)
     THEN pc' = "search" /\ resp' = resp
     ELSE pc' = "done" /\ resp' = SearchError(400)
  /\ UNCHANGED <<store, handler, traversal, qcount>>

\* const results = await query(sql, params), and the response
SearchQuery ==
  /\ req.op = "search" /\ pc = "search"
  /\ qcount' = qcount + 1
  /\ pc' = "done"
  /\ \E b \in {SearchBound(req)} : \E coerces \in BOOLEAN :
       IF ~QueryOk(SearchParams(req)) \/ SearchRejected(b, coerces)
       THEN resp' = SearchError(500)
       ELSE \E rows \in SearchResults(req, b) :
              resp' = [status |-> 200, results |-> rows, total |-> Len(rows)]
  /\ UNCHANGED <<store, handler, traversal>>

\* the storage fails for a reason of its own
SearchFail ==
  /\ req.op = "search" /\ pc = "search"
  /\ qcount' = qcount + 1
  /\ pc' = "done" /\ resp' = SearchError(500)
  /\ locals' = [locals EXCEPT !.fault = TRUE]
  /\ UNCHANGED <<store, req, traversal>>

(***************************************************************************)
(* Specification of one search request over every store of StoredEntities  *)
(* entities.                                                               *)
(***************************************************************************)
Half == <<"0", ".", "5">>            \* the text 0.5
XHalf == <<"X", "0", ".", "5">>      \* the text X0.5
Ab == <<"a", "b">>
Component == <<"Component">>         \* an entity type, as a text

SearchEntities ==
  {[name |-> n, etype |-> Component, project |-> DefaultProject, confidence |-> c,
    metadata |-> m] :
     n \in {Half, XHalf, Ab}, c \in {2, 5},
     m \in {[f \in {} |-> <<>>], [f \in {"description"} |-> Half]}}

SearchRequests ==
  LET SearchRequest(q, fuzzy, sort, project, types, conf, max) ==
        [op |-> "search", query |-> q, fuzzyMatch |-> fuzzy, sortBy |-> sort,
         projectId |-> project, entityTypes |-> types, minConfidence |-> conf,
         maxResults |-> max]
  IN {SearchRequest(q, f, s, None, None, None, None) :
        q \in {Half, Ab, <<"A", "B">>, Ab \o <<" ">> \o Half, <<"a">>, <<" ">>,
               <<"a", "?">>, <<>>},
        f \in {None, Some(FALSE)},
        s \in {None, Some("confidence"), Some("updated")}}
      \cup {SearchRequest(q, None, None, p, t, c, m) :
              q \in {Half, Ab}, p \in {None, Some(DefaultProject)},
              t \in {None, Some(<<>>), Some(<<Component>>)},
              c \in {None, Some(0)}, m \in {None, Some(1)}}
      \cup {SearchRequest(Half, None, s, None, None, c, m) :
              s \in {None, Some("name")}, c \in {None, Some(11)}, m \in {None, Some(0)}}

InitSearch ==
  /\ projects = {DefaultProject}
  /\ entities \in [EntityIds(StoredEntities) -> SearchEntities]
  /\ relationships = <<>>
  /\ observations = <<>>
  /\ req \in SearchRequests
  /\ pc = "check"
  /\ resp = NoResp
  /\ qcount = 0
  /\ visitedIds = {}
  /\ frame = NoFrames
  /\ queried = NoQueries
  /\ locals = NoLocals

NextSearch ==
  \/ SearchCheck
  \/ SearchQuery
  \/ SearchFail

SpecSearch == InitSearch /\ [][NextSearch]_vars

(***************************************************************************)
(* Properties of the search.                                               *)
(***************************************************************************)
Contains(s, part) ==
  \E i \in 0..(Len(s) - Len(part)) : SubSeq(s, i + 1, i + Len(part)) = part

\* a search that passed validation and met no storage fault has been answered
SearchAnswered == Answered("search") /\ SearchValid(req) /\ ~locals.fault

\* C9: in a search sorted by relevance, of two returned entities of equal
\* confidence, the first's name equal to the query and the second's name only
\* containing it (both case-insensitively), the first has the strictly higher
\* relevance score and comes before the second.
C9_ExactOutranksSubstring ==
  (SearchAnswered /\ OrDefault(req.sortBy, "relevance") = "relevance") =>
    \A i, j \in DOMAIN resp.results :
      LET x == resp.results[i]
          y == resp.results[j]
          q == ToLowerCase(req.query)
      IN (/\ x.confidence = y.confidence
          /\ ToLowerCase(x.name) = q
          /\ ToLowerCase(y.name) # q /\ Contains(ToLowerCase(y.name), q))
         => x.relevanceScore > y.relevanceScore /\ i < j

\* the fields a term may match in
MatchesTerm(row, term) ==
  \E f \in DOMAIN TermFields :
    Contains(ToLowerCase(IF TermFields[f] = "name" THEN row.name
                         ELSE IF TermFields[f] \in DOMAIN row.metadata
                         THEN row.metadata[TermFields[f]] ELSE <<>>),
             ToLowerCase(term))

ListParam(o) == IF o.k = "absent" THEN <<>> ELSE Split(o.v, ",")

\* relationConditions, in the order of the pushes: the column, the table
\* alias it is written with and the number of its placeholders
RelatedConditions(r) ==
  (IF ListParam(r.relationTypes) # <<>>
   THEN <<[column |-> "relation_type", alias |-> {"r"}, n |-> Len(ListParam(r.relationTypes))]>>
   ELSE <<>>)
  \o (IF r.projectId.k = "some" /\ r.projectId.v # <<>>
      THEN <<[column |-> "project_id", alias |-> {"e", "r_entity"}, n |-> 2]>> ELSE <<>>)
  \o (IF ListParam(r.entityTypes) # <<>>
      THEN <<[column |-> "entity_type", alias |-> {"e"}, n |-> Len(ListParam(r.entityTypes))]>>
      ELSE <<>>)
  \o <<[column |-> "confidence", alias |-> {"e"}, n |-> 1]>>

\* queryParams before limit and offset: the pushes, then unshift(entityId, entityId)
RelatedParams(r) ==
  <<Str(r.id), Str(r.id)>>
    \o <<Str(r.id)>>
    \o StrParams(ListParam(r.relationTypes))
    \o (IF r.projectId.k = "some" /\ r.projectId.v # <<>>
        THEN <<Str(r.projectId.v), Str(r.projectId.v)>> ELSE <<>>)
    \o StrParams(ListParam(r.entityTypes))
    \o <<Num(OrDefault(r.confidence, 3))>>
    \o <<Str(r.id)>>

\* the placeholders of a statement in the order of its text: the CASEs of
\* the CTE (two in the page statement, one in the count statement),
\* baseCondition, relationConditions and, in the page statement, LIMIT and
\* OFFSET
RelatedBound(r, params, cases) ==
  LET types == Len(ListParam(r.relationTypes))
      project == IF r.projectId.k = "some" /\ r.projectId.v # <<>> THEN 2 ELSE 0
      etypes == Len(ListParam(r.entityTypes))
      first == cases + 3       \* the first placeholder of relationConditions
  IN [relatedIdOf |-> params[1],
      directionOf |-> params[cases],
      from |-> params[cases + 1],
      to |-> params[cases + 2],
      relationTypes |-> SubSeq(params, first, first + types - 1),
      project |-> SubSeq(params, first + types, first + types + project - 1),
      entityTypes |-> SubSeq(params, first + types + project,
                             first + types + project + etypes - 1),
      confidence |-> params[first + types + project + etypes],
      limit |-> IF cases = 2 THEN params[first + types + project + etypes + 1] ELSE Num(0),
      offset |-> IF cases = 2 THEN params[first + types + project + etypes + 2] ELSE Num(0)]

\* the only table of the CTE related_entities: FROM relationships r
CteTables == {"r"}

\* the statement is rejected: a condition of the CTE names a table the CTE
\* does not select from, or a text that is no number is compared with the
\* FLOAT column
RelatedRejected(r, b) ==
  \/ \E i \in DOMAIN RelatedConditions(r) : ~(RelatedConditions(r)[i].alias \subseteq CteTables)
  \/ b.confidence.k = "str" /\ IsNaN(CastFloat(b.confidence.s))
  \/ b.limit.k # "num" \/ b.offset.k # "num"

\* the rows of the CTE joined with entities e and projects p
RelatedRows(b) ==
  LET Row(i) ==
        LET rel == relationships[i]
            other == IF rel.from = Text(b.relatedIdOf) THEN rel.to ELSE rel.from
        IN [id |-> other, name |-> entities[other].name,
            confidence |-> entities[other].confidence,
            relationship |-> [id |-> RelKey(i), type |-> rel.rtype, strength |-> rel.strength,
                              direction |-> IF rel.from = Text(b.directionOf)
                                            THEN "outgoing" ELSE "incoming"]]
  IN {Row(i) : i \in {j \in DOMAIN relationships :
                        /\ \/ relationships[j].from = Text(b.from)
                           \/ relationships[j].to = Text(b.to)
                        /\ b.relationTypes # <<>> =>
                             relationships[j].rtype \in {Text(b.relationTypes[k]) :
                                                          k \in DOMAIN b.relationTypes}
                        /\ \E e \in {IF relationships[j].from = Text(b.relatedIdOf)
                                      THEN relationships[j].to ELSE relationships[j].from} :
                             /\ Joined(e)
                             /\ \A k \in DOMAIN b.project :
                                  entities[e].project = Text(b.project[k])
                             /\ b.entityTypes # <<>> =>
                                  entities[e].etype \in {Text(b.entityTypes[k]) :
                                                           k \in DOMAIN b.entityTypes}
                             /\ entities[e].confidence >=
                                  (IF b.confidence.k = "str" THEN CastFloat(b.confidence.s)
                                   ELSE b.confidence.n)}}

\* ORDER BY e.confidence DESC ... LIMIT ? OFFSET ?
RelatedPage(b) ==
  LET rows == RelatedRows(b)
      n == Cardinality(rows)
      last == IF b.offset.n + b.limit.n < n THEN b.offset.n + b.limit.n ELSE n
  IN {SubSeq(s, b.offset.n + 1, last) :
        s \in {p \in [1..n -> rows] :
                 /\ Range(p) = rows
                 /\ \A i, j \in 1..n : i < j => p[i].confidence >= p[j].confidence}}

RelatedError(status) ==
  [status |-> status, relatedEntities |-> <<>>, total |-> 0, hasMore |-> FALSE]

\* the parameters are read and the conditions and queryParams are built
RelatedBuild ==
  /\ req.op = "related" /\ pc = "check"
  /\ IF req.id = <<>>
     THEN pc' = "done" /\ resp' = RelatedError(400) /\ locals' = locals
     ELSE /\ pc' = "related" /\ resp' = resp
          /\ locals' = [locals EXCEPT !.conditions = RelatedConditions(req),
                                      !.params = RelatedParams(req)]
  /\ UNCHANGED <<store, req, traversal, qcount>>

\* const relatedEntities = await query(sql, queryParams), then the count
\* query with countParams and the response
RelatedQuery ==
  /\ req.op = "related" /\ pc = "related"
  /\ qcount' = qcount + 1
  /\ pc' = "done"
  /\ \E params \in {locals.params \o <<Num(OrDefault(req.limit, 20)),
                                        Num(OrDefault(req.offset, 0))>>} :
       \E b \in {RelatedBound(req, params, 2)} :
         \E c \in {RelatedBound(req, locals.params, 1)} :
           IF \/ ~QueryOk(params) \/ RelatedRejected(req, b)
              \/ ~QueryOk(SubSeq(locals.params, 1, Len(locals.params) - 1))
              \/ RelatedRejected(req, c)
           THEN resp' = RelatedError(500)
           ELSE \E rows \in RelatedPage(b) :
                  resp' = [status |-> 200, relatedEntities |-> rows,
                           total |-> Cardinality(RelatedRows(c)),
                           hasMore |-> b.offset.n + b.limit.n < Cardinality(RelatedRows(c))]
  /\ UNCHANGED <<store, handler, traversal>>

\* the storage fails for a reason of its own
RelatedFail ==
  /\ req.op = "related" /\ pc = "related"
  /\ qcount' = qcount + 1
  /\ pc' = "done" /\ resp' = RelatedError(500)
  /\ locals' = [locals EXCEPT !.fault = TRUE]
  /\ UNCHANGED <<store, req, traversal>>

(***************************************************************************)
(* Specification of one related request over every graph of at most        *)
(* MaxRels relationships between StoredEntities + 1 entities.              *)
(***************************************************************************)
DependsOn == <<"DependsOn">>
Uses == <<"Uses">>

RelatedRequests ==
  LET RelatedRequest(id, project, types, etypes, conf, limit, offset) ==
        [op |-> "related", id |-> id, projectId |-> project, relationTypes |-> types,
         entityTypes |-> etypes, confidence |-> conf, limit |-> limit, offset |-> offset]
  IN {RelatedRequest(id, None, t, None, None, l, o) :
        id \in {EntityId(1), MissingId},
        t \in {None, Some(<<>>), Some(DependsOn), Some(DependsOn \o <<",">> \o Uses)},
        l \in {None, Some(1)}, o \in {None, Some(1)}}
      \cup {RelatedRequest(EntityId(1), p, None, t, c, None, None) :
              p \in {None, Some(DefaultProject)},
              t \in {None, Some(<<>>), Some(Component)},
              c \in {None, Some(0)}}
      \cup {RelatedRequest(<<>>, None, None, None, None, None, None)}

InitRelated ==
  /\ projects = {DefaultProject}
  /\ entities = [e \in EntityIds(StoredEntities + 1) |->
                   MkEntity(e, Component, DefaultProject, IF e = EntityId(2) THEN 2 ELSE 5)]
  /\ relationships \in GraphsOver(EntityIds(StoredEntities + 1), {DependsOn, Uses}, MaxRels)
  /\ observations = <<>>
  /\ req \in RelatedRequests
  /\ pc = "check"
  /\ resp = NoResp
  /\ qcount = 0
  /\ visitedIds = {}
  /\ frame = NoFrames
  /\ queried = NoQueries
  /\ locals = NoLocals

NextRelated ==
  \/ RelatedBuild
  \/ RelatedQuery
  \/ RelatedFail

SpecRelated == InitRelated /\ [][NextRelated]_vars


(***************************************************************************)
(* Properties of the related endpoint.                                     *)
(***************************************************************************)
RelatedAnswered == Answered("related") /\ req.id # <<>> /\ ~locals.fault

\* the relationship rows that have the start entity on a side and pass the
\* filters of the request
RelatedMatches ==
  {i \in DOMAIN relationships :
     LET rel == relationships[i]
         other == IF rel.from = req.id THEN rel.to ELSE rel.from
         types == {t \in Range(ListParam(req.relationTypes)) : t # <<>>}
         etypes == {t \in Range(ListParam(req.entityTypes)) : t # <<>>}
     IN /\ rel.from = req.id \/ rel.to = req.id
        /\ other \in DOMAIN entities
        /\ types # {} => rel.rtype \in types
        /\ etypes # {} => entities[other].etype \in etypes
        /\ req.projectId.k = "some" => entities[other].project = req.projectId.v
        /\ entities[other].confidence >= OrDefault(req.confidence, 3)}

\* C11: the related endpoint returns, for every relationship row that has the
\* start entity on either side and passes the filters, the entity on the
\* other side with direction outgoing when the start entity is the from side
\* and incoming when it is the to side, and that relationship's type and
\* strength (requests without limit and offset: the page holds every row).
C11_RelatedNeighbours ==
  (RelatedAnswered /\ req.limit.k = "absent" /\ req.offset.k = "absent") =>
    \A i \in RelatedMatches :
      /\ resp.status = 200
      /\ \E k \in DOMAIN resp.relatedEntities :
           LET row == resp.relatedEntities[k]
               rel == relationships[i]
           IN /\ row.id = (IF rel.from = req.id THEN rel.to ELSE rel.from)
              /\ row.relationship =
                   [id |-> RelKey(i), type |-> rel.rtype, strength |-> rel.strength,
                    direction |-> IF rel.from = req.id THEN "outgoing" ELSE "incoming"]

\* C12: the related endpoint reports as total the number of rows its filter
\* selects without LIMIT and OFFSET, and hasMore exactly when
\* offset + limit < total.
C12_TotalAndHasMore ==
  RelatedAnswered =>
    /\ resp.status = 200
    /\ resp.total = Cardinality(RelatedMatches)
    /\ resp.hasMore <=> (OrDefault(req.offset, 0) + OrDefault(req.limit, 20) < resp.total)


(***************************************************************************)
(* POST /api/context (src/src/app/api/context/route.ts).  The parameters   *)
(* are pushed in the order of the placeholders of the text.  The two       *)
(* relationship arrays of a row are built by the statement itself and only *)
(* decorate the row; they are not part of the rows of the model.  A stored *)
(* metadata is the object its JSON text stands for, or Unparsable, the     *)
(* mark of a text that is no JSON (a table the handlers did not create:    *)
(* the schema is set up with CREATE TABLE IF NOT EXISTS).                  *)
(***************************************************************************)
Unparsable == [f \in {"SyntaxError"} |-> <<>>]

\* ContextQuerySchema.safeParse(body).success
ContextValid(r) ==
  /\ Len(r.query) >= 1
  /\ OrDefault(r.maxResults, 10) > 0
  /\ OrDefault(r.confidence, 0) \in 0..10

\* `%${searchQuery}%`
SearchParam(r) == <<"%">> \o r.query \o <<"%">>

\* `if (confidence)`: a threshold of 0 adds no condition
ConfidenceFilter(r) ==
  IF r.confidence.k = "some" /\ r.confidence.v # 0 THEN <<r.confidence.v>> ELSE <<>>

\* params, in the order of the pushes
ContextParams(r) ==
  Times(<<Str(SearchParam(r))>>, 3)
    \o StrParams(ProjectFilter(r)) \o StrParams(TypeFilter(r))
    \o [i \in DOMAIN ConfidenceFilter(r) |-> Num(ConfidenceFilter(r)[i])]
    \o <<Num(OrDefault(r.maxResults, 10))>>

\* COALESCE(e.metadata->>'description', '')
Description(e) ==
  IF e.metadata # Unparsable /\ "description" \in DOMAIN e.metadata
  THEN e.metadata["description"] ELSE <<>>

\* the WHERE clause on one row of entities e JOIN projects p
ContextWhere(e, r) ==
  /\ e.project \in projects
  /\ \/ Like(e.name, SearchParam(r))
     \/ Like(e.etype, SearchParam(r))
     \/ Like(Description(e), SearchParam(r))
  /\ \A i \in DOMAIN ProjectFilter(r) : e.project = ProjectFilter(r)[i]
  /\ TypeFilter(r) # <<>> => e.etype \in Range(TypeFilter(r))
  /\ \A i \in DOMAIN ConfidenceFilter(r) : e.confidence >= ConfidenceFilter(r)[i]

\* ORDER BY e.confidence DESC LIMIT ?: the rows the statement can return
ContextRows(r) ==
  LET ids == {e \in DOMAIN entities : ContextWhere(entities[e], r)}
      n == Cardinality(ids)
      limit == OrDefault(r.maxResults, 10)
  IN {SubSeq(s, 1, IF limit < n THEN limit ELSE n) :
        s \in {p \in [1..n -> ids] :
                 /\ Range(p) = ids
                 /\ \A i, j \in 1..n :
                      i < j => entities[p[i]].confidence >= entities[p[j]].confidence}}

\* results.map(entity => ...): JSON.parse(entity.metadata) outside any try
ProcessedResults(rows) ==
  [i \in DOMAIN rows |->
     [id |-> rows[i], name |-> entities[rows[i]].name,
      entityType |-> entities[rows[i]].etype,
      confidence |-> entities[rows[i]].confidence,
      metadata |-> entities[rows[i]].metadata]]

ContextError(status) == [status |-> status, results |-> <<>>, total |-> 0]

\* const validation = ContextQuerySchema.safeParse(body)
ContextCheck ==
  /\ req.op = "context" /\ pc = "check"
  /\ IF ContextValid(req)
     THEN pc' = "context" /\ resp' = resp
     ELSE pc' = "done" /\ resp' = ContextError(400)
  /\ UNCHANGED <<store, handler, traversal, qcount>>

\* const results = await query(sql, params), the processing of the rows and
\* the response.  The engine reads e.metadata->>'description' of an
\* unparsable text as NULL or rejects the statement (strict).
ContextQuery ==
  /\ req.op = "context" /\ pc = "context"
  /\ qcount' = qcount + 1
  /\ pc' = "done"
  /\ \E strict \in BOOLEAN :
       IF \/ ~QueryOk(ContextParams(req))
          \/ strict /\ \E e \in DOMAIN entities : entities[e].metadata = Unparsable
       THEN resp' = ContextError(500)
       ELSE \E rows \in ContextRows(req) :
              IF \E i \in DOMAIN rows : entities[rows[i]].metadata = Unparsable
              THEN resp' = ContextError(500)
              ELSE resp' = [status |-> 200, results |-> ProcessedResults(rows),
                            total |-> Len(rows)]
  /\ UNCHANGED <<store, handler, traversal>>

\* the storage fails for a reason of its own
ContextFail ==
  /\ req.op = "context" /\ pc = "context"
  /\ qcount' = qcount + 1
  /\ pc' = "done" /\ resp' = ContextError(500)
  /\ locals' = [locals EXCEPT !.fault = TRUE]
  /\ UNCHANGED <<store, req, traversal>>

(***************************************************************************)
(* Specification of one context request over every store of                *)
(* StoredEntities entities.                                                *)
(***************************************************************************)
ContextEntities ==
  {[name |-> n, etype |-> Component, project |-> DefaultProject, confidence |-> c,
    metadata |-> m] :
     n \in {Half, XHalf, Ab}, c \in {2, 5},
     m \in {[f \in {} |-> <<>>], [f \in {"description"} |-> Half], Unparsable}}

ContextRequests ==
  LET ContextRequest(q, project, types, conf, max) ==
        [op |-> "context", query |-> q, projectId |-> project, entityTypes |-> types,
         confidence |-> conf, maxResults |-> max]
  IN {ContextRequest(q, None, None, None, m) :
        q \in {Half, Ab, Component, <<" ">>, <<" ", " ">>, <<"a", "?">>, <<>>},
        m \in {None, Some(1), Some(0)}}
      \cup {ContextRequest(q, p, t, c, None) :
              q \in {Half, <<"a">>}, p \in {None, Some(DefaultProject), Some(OtherProject)},
              t \in {None, Some(<<>>), Some(<<Component>>), Some(<<Ab>>)},
              c \in {None, Some(0), Some(5), Some(11)}}

InitContext ==
  /\ projects = {DefaultProject}
  /\ entities \in [EntityIds(StoredEntities) -> ContextEntities]
  /\ relationships = <<>>
  /\ observations = <<>>
  /\ req \in ContextRequests
  /\ pc = "check"
  /\ resp = NoResp
  /\ qcount = 0
  /\ visitedIds = {}
  /\ frame = NoFrames
  /\ queried = NoQueries
  /\ locals = NoLocals

NextContext ==
  \/ ContextCheck
  \/ ContextQuery
  \/ ContextFail

SpecContext == InitContext /\ [][NextContext]_vars

(***************************************************************************)
(* Properties of the validation of the query text.                         *)
(***************************************************************************)
\* String.prototype.trim over the alphabet of the model
Trim(s) ==
  LET inked == {i \in DOMAIN s : s[i] # " "}
  IN IF inked = {} THEN <<>>
     ELSE SubSeq(s, CHOOSE i \in inked : \A j \in inked : i <= j,
                 CHOOSE i \in inked : \A j \in inked : i >= j)

\* C13: a POST /context or POST /context/search request whose query is empty
\* after trimming whitespace is answered 400 and causes no storage query: it
\* never stands before the query of the handler, and once answered the
\* status is 400 and no query has been counted
C13_BlankQueryRejected ==
  (req.op \in {"context", "search"} /\ Trim(req.query) = <<>>)
    => /\ pc \notin {"context", "search"}
       /\ pc = "done" => resp.status = 400 /\ qcount = 0


(***************************************************************************)
(* Properties of the type filters.                                         *)
(***************************************************************************)
\* a filter given as an empty list: an empty array of the body, an empty
\* value of the query string
EmptyList(o) == o.k = "some" /\ o.v = <<>>

\* the entities a context request selects when its type filter is left out
ContextMatches ==
  {e \in DOMAIN entities :
     /\ \/ Contains(entities[e].name, req.query)
        \/ Contains(entities[e].etype, req.query)
        \/ /\ "description" \in DOMAIN entities[e].metadata
           /\ Contains(entities[e].metadata["description"], req.query)
     /\ req.projectId.k = "some" /\ req.projectId.v # <<>>
          => entities[e].project = req.projectId.v
     /\ entities[e].confidence >= OrDefault(req.confidence, 0)}

\* C14: a type filter given as an empty list restricts nothing.  On the
\* related endpoint an empty relationTypes= or entityTypes= value puts no
\* condition on relation_type or entity_type into the statement; a context
\* request with entityTypes [] that is answered 200 returns the entities the
\* request without the filter selects, up to maxResults of them.
C14_EmptyFilterIsNoFilter ==
  /\ (req.op = "related" /\ pc \in {"related", "done"} /\ req.id # <<>>)
       => \A i \in DOMAIN locals.conditions :
            /\ EmptyList(req.relationTypes)
                 => locals.conditions[i].column # "relation_type"
            /\ EmptyList(req.entityTypes)
                 => locals.conditions[i].column # "entity_type"
  /\ (Answered("context") /\ resp.status = 200 /\ EmptyList(req.entityTypes))
       => /\ {resp.results[i].id : i \in DOMAIN resp.results} \subseteq ContextMatches
          /\ \/ resp.total = Cardinality(ContextMatches)
             \/ resp.total = OrDefault(req.maxResults, 10)


(***************************************************************************)
(* PUT /api/projects/{projectId}                                           *)
(* (src/src/app/api/projects/[projectId]/route.ts).  The body is parsed    *)
(* JSON: a field is absent or holds a JSON value, never a Date, so the     *)
(* UPDATE behind ProjectSchema.parse is never reached and is no action.    *)
(***************************************************************************)
\* ProjectSchema.parse({...body, id, updatedAt: new Date()}) does not throw:
\* name is a string, description a string if given, createdAt a Date
ProjectValid(r) ==
  /\ r.body.name.k = "some" /\ r.body.name.v.k = "str"
  /\ r.body.description.k = "some" => r.body.description.v.k = "str"
  /\ r.body.createdAt.k = "some" /\ r.body.createdAt.v.k = "date"

\* const projects = await query('SELECT id FROM projects WHERE id = ?', [id])
PutProjectLookup ==
  /\ req.op = "putProject" /\ pc = "check"
  /\ qcount' = qcount + 1
  /\ IF ~QueryOk(<<Str(req.id)>>)
     THEN pc' = "done" /\ resp' = [status |-> 500]
     ELSE IF req.id \notin projects
     THEN pc' = "done" /\ resp' = [status |-> 404]
     ELSE pc' = "parse" /\ resp' = resp
  /\ UNCHANGED <<store, handler, traversal>>

\* the lookup fails for a reason of the storage
PutProjectLookupFail ==
  /\ req.op = "putProject" /\ pc = "check"
  /\ qcount' = qcount + 1
  /\ pc' = "done" /\ resp' = [status |-> 500]
  /\ locals' = [locals EXCEPT !.fault = TRUE]
  /\ UNCHANGED <<store, req, traversal>>

\* const validatedData = ProjectSchema.parse(...): a ZodError is answered 400
\* by the catch
PutProjectParse ==
  /\ req.op = "putProject" /\ pc = "parse"
  /\ ~ProjectValid(req)
  /\ pc' = "done" /\ resp' = [status |-> 400]
  /\ UNCHANGED <<store, handler, traversal, qcount>>

(***************************************************************************)
(* Specification of one PUT /api/projects/{projectId} request.             *)
(***************************************************************************)
ProjectRequests ==
  LET JsonValues == {Str(NameA), Str(NameQ), Num(1), Null}
  IN {[op |-> "putProject", id |-> id,
       body |-> [name |-> n, description |-> d, createdAt |-> c]] :
        id \in {DefaultProject, OtherProject, MissingId},
        n \in {None} \cup {Some(v) : v \in JsonValues},
        d \in {None, Some(Str(Why)), Some(Num(1))},
        c \in {None, Some(Str(<<"2024-01-01T00:00:00.000Z">>))}}

InitProject ==
  /\ projects \in {{DefaultProject}, {DefaultProject, OtherProject}}
  /\ entities = <<>>
  /\ relationships = <<>>
  /\ observations = <<>>
  /\ req \in ProjectRequests
  /\ pc = "check"
  /\ resp = NoResp
  /\ qcount = 0
  /\ visitedIds = {}
  /\ frame = <<>>
  /\ queried = <<>>
  /\ locals = NoLocals

NextProject ==
  \/ PutProjectLookup
  \/ PutProjectLookupFail
  \/ PutProjectParse

SpecProject == InitProject /\ [][NextProject]_vars

(***************************************************************************)
(* Properties of the order of validation and storage calls.                *)
(***************************************************************************)
\* C15: validation completes before the first storage call: while a request
\* that fails validation is handled no storage query is issued, and its
\* answer is the validation error
C15_ValidationFirst ==
  /\ (req.op = "putProject" /\ ~ProjectValid(req))
       => qcount = 0 /\ (pc = "done" => resp.status = 400)
  /\ (req.op = "search" /\ ~SearchValid(req))
       => qcount = 0 /\ (pc = "done" => resp.status = 400)
  /\ (req.op = "context" /\ ~ContextValid(req))
       => qcount = 0 /\ (pc = "done" => resp.status = 400)


(***************************************************************************)
(* Properties of the ordering of the context results.                      *)
(***************************************************************************)
\* the coarse relevance of .cursor/rules/mcp-server-implementation.mdc in
\* twentieths: 3.0 for a name equal to the query, 2.0 for a name containing
\* it, 1.5 for a type equal to it, 1.0 otherwise, plus half the confidence
\* (the recency term is the same for all rows of the model)
CoarseRelevance(row) ==
  (IF ToLowerCase(row.name) = ToLowerCase(req.query) THEN 60
   ELSE IF Contains(ToLowerCase(row.name), ToLowerCase(req.query)) THEN 40
   ELSE IF row.entityType = req.query THEN 30
   ELSE 20) + row.confidence

\* C18: POST /context orders its results by the coarse 4-tier relevance
\* score: in a list answered with 200 no row stands before a row of higher
\* score
C18_ContextOrderedByRelevance ==
  (Answered("context") /\ resp.status = 200) =>
    \A i, j \in DOMAIN resp.results :
      i < j => CoarseRelevance(resp.results[i]) >= CoarseRelevance(resp.results[j])


(***************************************************************************)
(* Properties of the parsing of stored JSON.                               *)
(***************************************************************************)
\* C20: a stored metadata that fails to parse affects its own row only: a
\* valid context request (its query free of '?') on a store that holds such
\* a row, answered without a fault of the storage, is answered 200, and
\* every returned row carries its stored metadata, the empty object in place
\* of an unparsable one
C20_UnparsableRowOnly ==
  ( /\ Answered("context") /\ ContextValid(req) /\ ~locals.fault
    /\ ~Contains(req.query, <<"?">>)
    /\ \E e \in DOMAIN entities : entities[e].metadata = Unparsable )
    => /\ resp.status = 200
       /\ \A i \in DOMAIN resp.results :
            resp.results[i].metadata
              = IF entities[resp.results[i].id].metadata = Unparsable
                THEN [f \in {} |-> <<>>]
                ELSE entities[resp.results[i].id].metadata


(***************************************************************************)
(* GET /api/context/file/{path}                                            *)
(* (src/src/app/api/context/file/[path]/route.ts).  A path is a text whose *)
(* chunks are names and the character "/".                                 *)
(***************************************************************************)
RECURSIVE Basename(_)
\* path.basename(filePath): trailing separators are dropped, then the text
\* after the last separator is taken
Basename(p) ==
  IF p # <<>> /\ p[Len(p)] = "/" THEN Basename(SubSeq(p, 1, Len(p) - 1))
  ELSE LET pieces == Split(p, "/") IN pieces[Len(pieces)]

\* the project filter is pushed: if (projectId)
FileProject(r) == IF r.projectId.k = "some" /\ r.projectId.v # <<>>
                  THEN <<Str(r.projectId.v)>> ELSE <<>>

\* queryParams, in the order of the pushes
FileParams(r) ==
  LET filePathLike == FuzzyTerm(r.path)
      fileNameLike == FuzzyTerm(Basename(r.path))
      exactPathMatch == ToLowerCase(r.path)
      exactFileInPath == <<"%", "/">> \o ToLowerCase(Basename(r.path))
      projectId == IF FileProject(r) = <<>> THEN Null ELSE Str(r.projectId.v)
      projectOrEmpty == IF FileProject(r) = <<>> THEN Str(<<>>) ELSE Str(r.projectId.v)
  IN <<Str(filePathLike), Str(filePathLike), Str(fileNameLike)>>
       \o FileProject(r)
       \o <<Num(OrDefault(r.confidence, 3))>>
       \o <<Str(exactPathMatch), Str(exactPathMatch), Str(exactPathMatch),
            Str(exactFileInPath), Str(exactFileInPath), Str(fileNameLike)>>
       \o <<projectId, projectOrEmpty, projectOrEmpty>>
       \o <<Num(OrDefault(r.limit, 20))>>

\* the placeholders of the statement in the order of its text: the six WHENs
\* of relevanceScoring, the three of the outgoingRelationships subselect,
\* the conditions of the WHERE clause, LIMIT
FileBound(r, params) ==
  LET p == Len(FileProject(r))
  IN [filePathEquals |-> params[1],
      pathEquals |-> params[2],
      nameEquals |-> params[3],
      filePathLike |-> params[4],
      pathLike |-> params[5],
      nameLike |-> params[6],
      anyProject |-> params[7],
      targetProject |-> params[8],
      sourceProject |-> params[9],
      whereFilePath |-> params[10],
      wherePath |-> params[11],
      whereName |-> params[12],
      project |-> SubSeq(params, 13, 12 + p),
      confidence |-> params[13 + p],
      limit |-> params[14 + p]]

\* the text of a literal; query() writes null as the text 'null'
Literal(v) == IF v.k = "null" THEN <<"null">> ELSE Text(v)

\* the statement is rejected: a text that is no number is compared with the
\* FLOAT column, or a number stands where a text is taken and the engine
\* does not coerce it
FileRejected(b, coerces) ==
  \/ b.confidence.k = "null"
  \/ b.confidence.k = "str" /\ IsNaN(CastFloat(b.confidence.s))
  \/ b.limit.k # "num"
  \/ /\ ~coerces
     /\ \E v \in {b.filePathEquals, b.pathEquals, b.nameEquals, b.filePathLike,
                  b.pathLike, b.nameLike, b.targetProject, b.sourceProject,
                  b.whereFilePath, b.wherePath, b.whereName}
               \cup Range(b.project) : v.k = "num"

\* WHERE conditions.join(' AND ') on one row of entities e JOIN projects p
FileWhere(e, b) ==
  /\ e.project \in projects
  /\ \/ Like(LowerField(e, "filePath"), Literal(b.whereFilePath))
     \/ Like(LowerField(e, "path"), Literal(b.wherePath))
     \/ Like(LowerField(e, "name"), Literal(b.whereName))
  /\ \A i \in DOMAIN b.project : e.project = Literal(b.project[i])
  /\ e.confidence >= (IF b.confidence.k = "str" THEN CastFloat(b.confidence.s)
                      ELSE b.confidence.n)

\* the CASE of relevanceScoring: the first WHEN that holds
FileTier(e, b) ==
  IF LowerField(e, "filePath") = Literal(b.filePathEquals) THEN 100
  ELSE IF LowerField(e, "path") = Literal(b.pathEquals) THEN 100
  ELSE IF LowerField(e, "name") = Literal(b.nameEquals) THEN 50
  ELSE IF Like(LowerField(e, "filePath"), Literal(b.filePathLike)) THEN 30
  ELSE IF Like(LowerField(e, "path"), Literal(b.pathLike)) THEN 30
  ELSE IF Like(LowerField(e, "name"), Literal(b.nameLike)) THEN 15
  ELSE 0

\* the outgoingRelationships subselect of one row
FileOutgoing(id, b) ==
  {i \in DOMAIN relationships :
     /\ relationships[i].from = id
     /\ relationships[i].to \in DOMAIN entities
     /\ \/ b.anyProject.k = "null" /\ FALSE     \* 'null' IS NULL
        \/ entities[relationships[i].to].project = Literal(b.targetProject)
        \/ entities[id].project = Literal(b.sourceProject)}

\* a row of the response; the score is the CASE plus confidence * 20 (held
\* in tenths) plus 10 for a row updated within 30 days, which is open here
FileRow(id, b, recent) ==
  [id |-> id, name |-> entities[id].name, confidence |-> entities[id].confidence,
   relevanceScore |-> FileTier(entities[id], b) + 2 * entities[id].confidence
                        + (IF recent THEN 10 ELSE 0),
   outgoing |-> FileOutgoing(id, b)]

\* the rows the statement can return: ORDER BY relevance_score DESC LIMIT ?
FileResults(b) ==
  LET ids == {e \in DOMAIN entities : FileWhere(entities[e], b)}
      n == Cardinality(ids)
      limit == b.limit.n
  IN {SubSeq(s, 1, IF limit < n THEN limit ELSE n) :
        s \in {p \in [1..n -> {FileRow(id, b, recent) : id \in ids, recent \in BOOLEAN}] :
                 /\ {p[i].id : i \in 1..n} = ids
                 /\ \A i, j \in 1..n : i < j => p[i].relevanceScore >= p[j].relevanceScore}}

FileError(status) == [status |-> status, results |-> <<>>, total |-> 0]

\* the path is decoded and checked, the conditions and queryParams are built
FileBuild ==
  /\ req.op = "file" /\ pc = "check"
  /\ IF req.path = <<>>
     THEN pc' = "done" /\ resp' = FileError(400) /\ locals' = locals
     ELSE /\ pc' = "file" /\ resp' = resp
          /\ locals' = [locals EXCEPT !.params = FileParams(req)]
  /\ UNCHANGED <<store, req, traversal, qcount>>

\* const results = await query(sql, queryParams), and the response
FileQuery ==
  /\ req.op = "file" /\ pc = "file"
  /\ qcount' = qcount + 1
  /\ pc' = "done"
  /\ \E b \in {FileBound(req, locals.params)} : \E coerces \in BOOLEAN :
       IF ~QueryOk(locals.params) \/ FileRejected(b, coerces)
       THEN resp' = FileError(500)
       ELSE \E rows \in FileResults(b) :
              resp' = [status |-> 200, results |-> rows, total |-> Len(rows)]
  /\ UNCHANGED <<store, handler, traversal>>

\* the storage fails for a reason of its own
FileFail ==
  /\ req.op = "file" /\ pc = "file"
  /\ qcount' = qcount + 1
  /\ pc' = "done" /\ resp' = FileError(500)
  /\ locals' = [locals EXCEPT !.fault = TRUE]
  /\ UNCHANGED <<store, req, traversal>>

(***************************************************************************)
(* Specification of one search, related or file request over every graph   *)
(* of at most MaxRels relationships between StoredEntities entities.       *)
(***************************************************************************)
SrcA == <<"src", "/", "A">>          \* the path src/A

FileRequests ==
  {[op |-> "file", path |-> p, projectId |-> j, confidence |-> c, limit |-> l] :
     p \in {SrcA, <<"A">>, <<"a", "?">>, <<>>},
     j \in {None, Some(DefaultProject), Some(Half)},
     c \in {None, Some(0)}, l \in {None, Some(1)}}

PlaceholderEntities ==
  {[name |-> n, etype |-> Component, project |-> DefaultProject, confidence |-> 5,
    metadata |-> m] :
     n \in {Half, <<"A">>},
     m \in {[f \in {} |-> <<>>], [f \in {"filePath"} |-> SrcA]}}

InitPlaceholders ==
  /\ projects = {DefaultProject}
  /\ entities \in [EntityIds(StoredEntities) -> PlaceholderEntities]
  /\ relationships \in GraphsOver(EntityIds(StoredEntities), {DependsOn}, MaxRels)
  /\ observations = <<>>
  /\ req \in SearchRequests \cup RelatedRequests \cup FileRequests
  /\ pc = "check"
  /\ resp = NoResp
  /\ qcount = 0
  /\ visitedIds = {}
  /\ frame = NoFrames
  /\ queried = NoQueries
  /\ locals = NoLocals

NextPlaceholders ==
  \/ SearchCheck
  \/ SearchQuery
  \/ SearchFail
  \/ RelatedBuild
  \/ RelatedQuery
  \/ RelatedFail
  \/ FileBuild
  \/ FileQuery
  \/ FileFail

SpecPlaceholders == InitPlaceholders /\ [][NextPlaceholders]_vars

(***************************************************************************)
(* Properties of the parameter lists.                                      *)
(***************************************************************************)
\* C25: in the search, file and related handlers each value of the parameter
\* list reaches the placeholder it was built for: the confidence threshold
\* the predicate e.confidence >= ?, the lower-cased exact term the first WHEN
\* of the relevance CASE, the entity id both sides of the related
\* endpoint's (r.from_entity_id = ? OR r.to_entity_id = ?), the limit LIMIT ?
C25_ParamsFollowPlaceholders ==
  /\ (req.op = "search" /\ pc \in {"search", "done"} /\ SearchValid(req)) =>
       /\ SearchBound(req).confidence = Num(OrDefault(req.minConfidence, 3))
       /\ SearchBound(req).nameEquals = Str(ToLowerCase(req.query))
       /\ SearchBound(req).limit = Num(OrDefault(req.maxResults, 20))
  /\ (req.op = "related" /\ pc \in {"related", "done"} /\ req.id # <<>>) =>
       LET b == RelatedBound(req, locals.params \o <<Num(OrDefault(req.limit, 20)),
                                                     Num(OrDefault(req.offset, 0))>>, 2)
       IN /\ b.from = Str(req.id)
          /\ b.to = Str(req.id)
          /\ b.confidence = Num(OrDefault(req.confidence, 3))
          /\ b.limit = Num(OrDefault(req.limit, 20))
  /\ (req.op = "file" /\ pc \in {"file", "done"} /\ req.path # <<>>) =>
       LET b == FileBound(req, locals.params)
       IN /\ b.confidence = Num(OrDefault(req.confidence, 3))
          /\ b.filePathEquals = Str(ToLowerCase(req.path))
          /\ b.limit = Num(OrDefault(req.limit, 20))


(***************************************************************************)
(* Two POST /api/agent/update requests served at the same time.  Every     *)
(* await query(...) of the handler is one step of its request; req, pc,    *)
(* resp and locals hold one value for each of the two requests.  The       *)
(* requests name the entities A and B of the default project with a        *)
(* confidence and no observations.                                         *)
(***************************************************************************)
Writers == {"w1", "w2"}

ConcurrentUpdates ==
  LET Item(name) ==
        [name |-> name, entityType |-> "Component", confidence |-> Some(10),
         observations |-> None]
      Link(from, to) ==
        [fromEntityName |-> from, toEntityName |-> to, relationType |-> "Uses",
         strength |-> Some(10)]
      Update(items, links) ==
        [op |-> "agentUpdate", projectId |-> DefaultProject, projectName |-> None,
         entities |-> items, relationships |-> links]
  IN {Update(<<Item(NameA)>>, None),
      Update(<<Item(NameA), Item(NameB)>>, Some(<<Link(NameA, NameB)>>)),
      Update(<<Item(NameB), Item(NameA)>>, Some(<<Link(NameA, NameB), Link(NameB, NameQ)>>))}

\* the position after the entity loop has gone on to its next item
AfterEntity(w, item) ==
  IF item <= Len(req[w].entities) THEN "entity"
  ELSE IF OrDefault(req[w].relationships, <<>>) # <<>> THEN "relationship" ELSE "respond"

\* the position after the relationship loop has gone on to its next item
AfterRelationship(w, rel) ==
  IF rel <= Len(OrDefault(req[w].relationships, <<>>)) THEN "relationship" ELSE "respond"

\* const existingEntities = await query(`SELECT id FROM entities WHERE name = ?
\* AND project_id = ?`, [name, projectId])
SelectEntity ==
  \E w \in Writers :
    /\ pc[w] = "entity"
    /\ locals' = [locals EXCEPT ![w].existing =
                    ExistingEntities(Store, req[w].entities[locals[w].item].name,
                                     req[w].projectId)]
    /\ pc' = [pc EXCEPT ![w] = "entityWrite"]
    /\ UNCHANGED <<store, req, resp, qcount, traversal>>

\* the UPDATE of the row found, or the INSERT of a new entity, then
\* createdEntityIds.set(name, entityId)
WriteEntity ==
  \E w \in Writers :
    /\ pc[w] = "entityWrite"
    /\ LET it == req[w].entities[locals[w].item]
           found == locals[w].existing
           entityId == IF found # <<>> THEN found[1] ELSE NewId(Store)
       IN /\ entities' =
               IF found # <<>>
               THEN [entities EXCEPT ![entityId].etype = it.entityType,
                                     ![entityId].confidence = it.confidence.v]
               ELSE Put(entities, entityId,
                        MkEntity(it.name, it.entityType, req[w].projectId,
                                 OrHalf(it.confidence)))
          /\ locals' = [locals EXCEPT
                          ![w].createdEntityIds = Put(@, it.name, entityId),
                          ![w].item = @ + 1]
          /\ pc' = [pc EXCEPT ![w] = AfterEntity(w, locals[w].item + 1)]
    /\ UNCHANGED <<projects, relationships, observations, req, resp, qcount, traversal>>

\* fromEntityId and toEntityId are looked up in createdEntityIds; if both are
\* there, const existingRelationships = await query(`SELECT id FROM
\* relationships WHERE from_entity_id = ? AND to_entity_id = ? AND
\* relation_type = ?`, ...); otherwise the relationship is skipped
SelectRelationship ==
  \E w \in Writers :
    /\ pc[w] = "relationship"
    /\ LET it == req[w].relationships.v[locals[w].rel]
           ids == locals[w].createdEntityIds
       IN IF it.fromEntityName \in DOMAIN ids /\ it.toEntityName \in DOMAIN ids
          THEN /\ locals' = [locals EXCEPT ![w].existing =
                               SetToSeq({i \in DOMAIN relationships :
                                  /\ relationships[i].from = ids[it.fromEntityName]
                                  /\ relationships[i].to = ids[it.toEntityName]
                                  /\ relationships[i].rtype = it.relationType})]
               /\ pc' = [pc EXCEPT ![w] = "relationshipWrite"]
          ELSE /\ locals' = [locals EXCEPT ![w].rel = @ + 1]
               /\ pc' = [pc EXCEPT ![w] = AfterRelationship(w, locals[w].rel + 1)]
    /\ UNCHANGED <<store, req, resp, qcount, traversal>>

\* the UPDATE of the row found, or the INSERT of a new relationship
WriteRelationship ==
  \E w \in Writers :
    /\ pc[w] = "relationshipWrite"
    /\ LET it == req[w].relationships.v[locals[w].rel]
           ids == locals[w].createdEntityIds
           found == locals[w].existing
       IN relationships' =
            IF found # <<>>
            THEN [relationships EXCEPT ![found[1]].strength = it.strength.v]
            ELSE Append(relationships,
                        MkRel(ids[it.fromEntityName], ids[it.toEntityName],
                              it.relationType, OrHalf(it.strength)))
    /\ locals' = [locals EXCEPT ![w].rel = @ + 1]
    /\ pc' = [pc EXCEPT ![w] = AfterRelationship(w, locals[w].rel + 1)]
    /\ UNCHANGED <<projects, entities, observations, req, resp, qcount, traversal>>

\* a statement throws: the catch of the loop logs and the loop goes on to
\* its next item
StatementThrows ==
  \E w \in Writers :
    /\ pc[w] \in {"entity", "entityWrite", "relationship", "relationshipWrite"}
    /\ IF pc[w] \in {"entity", "entityWrite"}
       THEN /\ locals' = [locals EXCEPT ![w].item = @ + 1]
            /\ pc' = [pc EXCEPT ![w] = AfterEntity(w, locals[w].item + 1)]
       ELSE /\ locals' = [locals EXCEPT ![w].rel = @ + 1]
            /\ pc' = [pc EXCEPT ![w] = AfterRelationship(w, locals[w].rel + 1)]
    /\ UNCHANGED <<store, req, resp, qcount, traversal>>

\* return NextResponse.json({ success: true, ... })
Respond ==
  \E w \in Writers :
    /\ pc[w] = "respond"
    /\ resp' = [resp EXCEPT ![w] = [status |-> 200]]
    /\ pc' = [pc EXCEPT ![w] = "done"]
    /\ UNCHANGED <<store, req, locals, qcount, traversal>>

InitConcurrent ==
  /\ projects = {DefaultProject}
  /\ entities = <<>>
  /\ relationships = <<>>
  /\ observations = <<>>
  /\ req \in [Writers -> ConcurrentUpdates]
  /\ pc = [w \in Writers |-> "entity"]
  /\ resp = [w \in Writers |-> NoResp]
  /\ qcount = 0
  /\ visitedIds = {}
  /\ frame = <<>>
  /\ queried = <<>>
  /\ locals = [w \in Writers |->
                 [item |-> 1, rel |-> 1, existing |-> <<>>, createdEntityIds |-> <<>>]]

NextConcurrent ==
  \/ SelectEntity
  \/ WriteEntity
  \/ SelectRelationship
  \/ WriteRelationship
  \/ StatementThrows
  \/ Respond

SpecConcurrent == InitConcurrent /\ [][NextConcurrent]_vars

(***************************************************************************)
(* Properties of concurrent agent updates.                                 *)
(***************************************************************************)
\* C26: however the statements of two agent updates interleave, the store
\* never holds two entities of the same name and project_id, nor two
\* relationships of the same from_entity_id, to_entity_id and relation_type
C26_NoDuplicatesWhenInterleaved ==
  /\ \A a, b \in DOMAIN entities :
       (entities[a].name = entities[b].name /\ entities[a].project = entities[b].project)
         => a = b
  /\ \A i, j \in DOMAIN relationships :
       ( /\ relationships[i].from = relationships[j].from
         /\ relationships[i].to = relationships[j].to
         /\ relationships[i].rtype = relationships[j].rtype ) => i = j


(***************************************************************************)
(* Specification of one call of query(sql, params) for every list of at    *)
(* most MaxParams parameters and the text with as many placeholders.       *)
(***************************************************************************)
MaxParams == 3   \* parameters of one call at most

ParamValues ==
  {Str(<<"a">>), Str(<<"a", "?">>), Str(<<"?">>), Num(5), Null}

\* query(sql, params): the placeholders are replaced and db.all runs the
\* processed text
query ==
  /\ req.op = "query" /\ pc = "query"
  /\ resp' = [sql |-> ProcessedSql(SqlText(Len(locals.params)), locals.params)]
  /\ qcount' = qcount + 1
  /\ pc' = "done"
  /\ UNCHANGED <<store, handler, traversal>>

InitQuery ==
  /\ projects = {DefaultProject}
  /\ entities = <<>>
  /\ relationships = <<>>
  /\ observations = <<>>
  /\ req = [op |-> "query"]
  /\ pc = "query"
  /\ resp = NoResp
  /\ qcount = 0
  /\ visitedIds = {}
  /\ frame = <<>>
  /\ queried = <<>>
  /\ locals \in {[NoLocals EXCEPT !.params = p] :
                   p \in UNION {[1..n -> ParamValues] : n \in 0..MaxParams}}

SpecQuery == InitQuery /\ [][query]_vars

(***************************************************************************)
(* Properties of query().                                                  *)
(***************************************************************************)
\* C30: query(sql, params) puts the i-th parameter into the i-th placeholder
\* of the original text for every list of parameters, those that hold the
\* character '?' included: the text it runs is the original text with every
\* placeholder replaced by its own parameter
C30_PositionalSubstitution ==
  (req.op = "query" /\ pc = "done") =>
    resp.sql = BoundSql(Len(locals.params), locals.params)

====
